---- MODULE Spec2Model ----
(***************************************************************************)
(* fit-ranks: the relational store with its row-level-security policies    *)
(* (supabase/migrations/*.sql) and the page handlers that write to it      *)
(* (src/pages/*.tsx).  The store is one variable, db, a record of tables;  *)
(* each table is a set of rows.  Every statement reaches the store under   *)
(* an identity (auth.uid()) and is filtered by the policies of its table.  *)
(***************************************************************************)
EXTENDS Integers, Sequences, FiniteSets, TLC

VARIABLES
    db,       \* the store: table name -> set of rows
    actor,    \* auth.uid() of the last statement issued straight to the store
    result,   \* the response to that statement
    \* Workout page (const Workout)
    workoutName,        \* useState('')
    workoutExercises,   \* useState<WorkoutExercise[]>([])
    isLoading,          \* useState(false)
    save,               \* the saveWorkout call in flight: where it awaits and what it captured
    \* Social page (function Social), one instance per session
    sharedWorkouts,     \* useState<SharedWorkout[]>([])
    likedWorkouts,      \* useState<Set<string>>(new Set())
    socialCalls,        \* the fetches and handleLike calls in flight
    \* Templates page (function Templates), one instance per session
    templates,          \* useState<WorkoutTemplate[]>([])
    templateCalls,      \* the fetchTemplates and useTemplate calls in flight
    timesApplied,       \* history: user -> template id -> useTemplate calls that reported success
    \* Profile page (const Profile) of PageUser
    profile,            \* useState<Profile | null>(null)
    editedProfile,      \* useState<Partial<Profile>>({})
    isEditing,          \* useState(false)
    saving,             \* useState(false)
    profileCalls,       \* the fetchProfile and handleSaveProfile calls in flight
    \* The application shell
    page,               \* the page the router shows
    toasts,             \* the notification toast() shows, "" when none
    \* The pages that only display: Leaderboard, Dashboard, Analytics
    topUsers,           \* Leaderboard: useState<LeaderboardUser[]>([])
    userRank,           \* Leaderboard: useState<number | null>(null)
    dashboardProfile,   \* Dashboard: useState<Profile | null>(null)
    analyticsData,      \* Analytics: useState({ totalWorkouts: 0, ... })
    \* The validation schemas (lib/validations.ts)
    submission,         \* the value handed to safeParse
    parsed,             \* what safeParse returned for it
    \* BodyTracker page (function BodyTracker) of PageUser
    measurements,       \* useState<BodyMeasurement[]>([])
    loading,            \* useState(true)
    showForm,           \* useState(false)
    formData,           \* useState({ weight: '', height: '', ... })
    bodyCalls           \* the fetchMeasurements and handleSubmit calls in flight

storeVars == <<db, actor, result>>
workoutVars == <<workoutName, workoutExercises, isLoading, save>>
socialVars == <<sharedWorkouts, likedWorkouts, socialCalls>>
templateVars == <<templates, templateCalls, timesApplied>>
profileVars == <<profile, editedProfile, isEditing, saving, profileCalls>>
viewVars == <<topUsers, userRank, dashboardProfile, analyticsData>>
schemaVars == <<submission, parsed>>
bodyVars == <<measurements, loading, showForm, formData, bodyCalls>>
formVars == <<schemaVars, bodyVars>>
appVars == <<page, toasts, viewVars, formVars>>
vars ==
    <<db, actor, result, workoutName, workoutExercises, isLoading, save,
      sharedWorkouts, likedWorkouts, socialCalls, templates, templateCalls, timesApplied,
      profile, editedProfile, isEditing, saving, profileCalls, page, toasts,
      topUsers, userRank, dashboardProfile, analyticsData,
      submission, parsed, measurements, loading, showForm, formData, bodyCalls>>

(***************************************************************************)
(* Universe                                                                *)
(***************************************************************************)
Users == {"u1", "u2"}
ExerciseIds == {"e1"}
AchievementIds == {"first_workout", "week_warrior"}
Names == {"Leg", "Push"}

\* 'user_' || substr(new.id::text, 1, 8), on the account ids of the model.
DefaultUsername(id) == IF id = "u1" THEN "user_u1" ELSE "user_u2"

\* The usernames a signup or a profile update may carry.
Usernames == {"ann", "user_u1", "user_u2"}

\* Browser sessions and the user signed in to each (useAuth().user): two
\* devices of u1 and one of u2.
Sessions == {"s1", "s2", "s3"}
SessionUser(s) == IF s = "s3" THEN "u2" ELSE "u1"

\* Bounds of the store specifications: the private tables hold at most
\* MaxPrivateRows rows in all, the social tables at most MaxSocialRows.
MaxPrivateRows == 2
MaxSocialRows == 3
\* The store of the UNIQUE constraints holds at most MaxKeyedRows rows in all.
MaxKeyedRows == 7

Tables ==
    {"profiles", "workouts", "workout_exercises", "personal_bests", "user_achievements",
     "body_measurements", "workout_templates", "workout_shares", "workout_likes",
     "user_follows", "coach_groups", "group_members"}

\* auth.users: the accounts, one row per user.  raw_user_meta_data holds the
\* username given at signup: <<>> when none was given, else <<username>>.
Accounts(U) == {[id |-> u, raw_user_meta_data |-> <<>>] : u \in U}

\* No row in any table of the public schema; every user has an account.
EmptyDb == [t \in Tables \cup {"auth_users"} |-> IF t = "auth_users" THEN Accounts(Users) ELSE {}]

TotalRows(d) == Cardinality(UNION {{<<t, r.id>> : r \in d[t]} : t \in Tables})

\* gen_random_uuid(): an id no row of the table carries.
FreshId(rows) == CHOOSE n \in 1..(Cardinality(rows) + 1) : \A r \in rows : r.id # n

(***************************************************************************)
(* Row-level-security policies, one operator per CREATE POLICY.            *)
(* uid is auth.uid(), r the row the policy is evaluated on, d the store.   *)
(***************************************************************************)
UsersCanViewAllProfilesForLeaderboard(uid, r, d) == TRUE
UsersCanUpdateTheirOwnProfile(uid, r, d) == uid = r.user_id
UsersCanInsertTheirOwnProfile(uid, r, d) == uid = r.user_id

\* A SELECT policy USING (true), for comparison with the one the schema states.
UsersCanViewTheirOwnWorkoutsLeak(uid, r, d) == TRUE
UsersCanViewTheirOwnWorkouts(uid, r, d) == uid = r.user_id
UsersCanCreateTheirOwnWorkouts(uid, r, d) == uid = r.user_id
UsersCanUpdateTheirOwnWorkouts(uid, r, d) == uid = r.user_id
UsersCanDeleteTheirOwnWorkouts(uid, r, d) == uid = r.user_id

\* A subquery inside a policy reads workouts under the caller's own SELECT policy.
VisibleWorkouts(uid, d) == {w \in d.workouts : UsersCanViewTheirOwnWorkouts(uid, w, d)}

OwnsParentWorkout(uid, r, d) ==
    \E w \in VisibleWorkouts(uid, d) : w.id = r.workout_id /\ w.user_id = uid

\* The same EXISTS without the test on the parent's user_id, for comparison.
UsersCanViewWorkoutExercisesOfAnyParent(uid, r, d) ==
    \E w \in d.workouts : w.id = r.workout_id
UsersCanViewTheirOwnWorkoutExercises(uid, r, d) == OwnsParentWorkout(uid, r, d)
UsersCanCreateTheirOwnWorkoutExercises(uid, r, d) == OwnsParentWorkout(uid, r, d)
UsersCanUpdateTheirOwnWorkoutExercises(uid, r, d) == OwnsParentWorkout(uid, r, d)
UsersCanDeleteTheirOwnWorkoutExercises(uid, r, d) == OwnsParentWorkout(uid, r, d)

UsersCanViewAllPersonalBestsForLeaderboards(uid, r, d) == TRUE
\* FOR ALL USING (..): the check of a new row defaults to the USING expression.
UsersCanManageTheirOwnPersonalBests(uid, r, d) == uid = r.user_id

UsersCanViewTheirOwnAchievements(uid, r, d) == uid = r.user_id
UsersCanInsertTheirOwnAchievements(uid, r, d) == uid = r.user_id

\* FOR ALL ... USING (..) WITH CHECK (..)
UsersCanManageTheirOwnMeasurements(uid, r, d) == uid = r.user_id

UsersCanViewPublicTemplatesOrTheirOwn(uid, r, d) == r.is_public = TRUE \/ uid = r.creator_id
UsersCanCreateTheirOwnTemplates(uid, r, d) == uid = r.creator_id
UsersCanUpdateTheirOwnTemplates(uid, r, d) == uid = r.creator_id
UsersCanDeleteTheirOwnTemplates(uid, r, d) == uid = r.creator_id

UsersCanViewAllSharedWorkouts(uid, r, d) == TRUE
UsersCanShareTheirOwnWorkouts(uid, r, d) ==
    \E w \in VisibleWorkouts(uid, d) : w.id = r.workout_id /\ w.user_id = uid
UsersCanManageTheirOwnShares(uid, r, d) == uid = r.user_id

UsersCanViewAllLikes(uid, r, d) == TRUE
UsersCanManageTheirOwnLikes(uid, r, d) == uid = r.user_id

UsersCanViewAllFollows(uid, r, d) == TRUE
\* FOR INSERT WITH CHECK (auth.uid() = follower_id)
UsersCanManageTheirOwnFollows(uid, r, d) == uid = r.follower_id
UsersCanDeleteTheirOwnFollows(uid, r, d) == uid = r.follower_id

\* FOR ALL USING (auth.uid() = coach_id)
CoachesCanManageTheirGroups(uid, r, d) == uid = r.coach_id
UsersCanViewGroupsTheyreIn(uid, r, d) ==
    \/ uid = r.coach_id
    \/ \E m \in d.group_members : m.group_id = r.id /\ m.user_id = uid

CoachesAndMembersCanViewGroupMembers(uid, r, d) ==
    \/ \E g \in d.coach_groups : g.id = r.group_id /\ g.coach_id = uid
    \/ r.user_id = uid
\* FOR ALL USING (EXISTS (SELECT 1 FROM coach_groups ...))
CoachesCanManageTheirGroupMembers(uid, r, d) ==
    \E g \in d.coach_groups : g.id = r.group_id /\ g.coach_id = uid

(***************************************************************************)
(* The tables the policies applied to a command read in a subquery.  An    *)
(* UPDATE or DELETE with a WHERE clause also applies the SELECT policies.  *)
(* The store expands the SELECT policies of every table a subquery reads   *)
(* and answers the statement with "infinite recursion detected in policy   *)
(* for relation" when the expansion comes back to a table it is expanding. *)
(***************************************************************************)
PolicyReads(t, cmd) ==
    CASE t = "workout_exercises" -> {"workouts"}
      [] t = "workout_shares" /\ cmd = "insert" -> {"workouts"}
      [] t = "coach_groups" /\ cmd # "insert" -> {"group_members"}
      [] t = "group_members" -> {"coach_groups"}
      [] OTHER -> {}

RECURSIVE RecursionFrom(_, _)
RecursionFrom(t, active) ==
    /\ PolicyReads(t, "select") # {}
    /\ \/ t \in active
       \/ \E x \in PolicyReads(t, "select") : RecursionFrom(x, active \cup {t})

PolicyRecursion(t, cmd) == \E x \in PolicyReads(t, cmd) : RecursionFrom(x, {t})

(***************************************************************************)
(* The policies of a table combined per command.  Permissive policies of   *)
(* one command are OR-ed; a FOR ALL policy applies to every command, and   *)
(* a policy without WITH CHECK checks new rows with its USING expression;  *)
(* a command with no policy is denied.                                     *)
(***************************************************************************)
SelectUsing(t, uid, r, d) ==
    CASE t = "profiles" -> UsersCanViewAllProfilesForLeaderboard(uid, r, d)
      [] t = "workouts" -> UsersCanViewTheirOwnWorkouts(uid, r, d)
      [] t = "workout_exercises" -> UsersCanViewTheirOwnWorkoutExercises(uid, r, d)
      [] t = "personal_bests" ->
            UsersCanViewAllPersonalBestsForLeaderboards(uid, r, d)
                \/ UsersCanManageTheirOwnPersonalBests(uid, r, d)
      [] t = "body_measurements" -> UsersCanManageTheirOwnMeasurements(uid, r, d)
      [] t = "user_achievements" -> UsersCanViewTheirOwnAchievements(uid, r, d)
      [] t = "workout_templates" -> UsersCanViewPublicTemplatesOrTheirOwn(uid, r, d)
      [] t = "workout_shares" ->
            UsersCanViewAllSharedWorkouts(uid, r, d) \/ UsersCanManageTheirOwnShares(uid, r, d)
      [] t = "workout_likes" ->
            UsersCanViewAllLikes(uid, r, d) \/ UsersCanManageTheirOwnLikes(uid, r, d)
      [] t = "user_follows" -> UsersCanViewAllFollows(uid, r, d)
      [] t = "coach_groups" ->
            CoachesCanManageTheirGroups(uid, r, d) \/ UsersCanViewGroupsTheyreIn(uid, r, d)
      [] t = "group_members" ->
            CoachesAndMembersCanViewGroupMembers(uid, r, d)
                \/ CoachesCanManageTheirGroupMembers(uid, r, d)

InsertCheck(t, uid, r, d) ==
    CASE t = "profiles" -> UsersCanInsertTheirOwnProfile(uid, r, d)
      [] t = "workouts" -> UsersCanCreateTheirOwnWorkouts(uid, r, d)
      [] t = "workout_exercises" -> UsersCanCreateTheirOwnWorkoutExercises(uid, r, d)
      [] t = "personal_bests" -> UsersCanManageTheirOwnPersonalBests(uid, r, d)
      [] t = "body_measurements" -> UsersCanManageTheirOwnMeasurements(uid, r, d)
      [] t = "user_achievements" -> UsersCanInsertTheirOwnAchievements(uid, r, d)
      [] t = "workout_templates" -> UsersCanCreateTheirOwnTemplates(uid, r, d)
      [] t = "workout_shares" ->
            UsersCanShareTheirOwnWorkouts(uid, r, d) \/ UsersCanManageTheirOwnShares(uid, r, d)
      [] t = "workout_likes" -> UsersCanManageTheirOwnLikes(uid, r, d)
      [] t = "user_follows" -> UsersCanManageTheirOwnFollows(uid, r, d)
      [] t = "coach_groups" -> CoachesCanManageTheirGroups(uid, r, d)
      [] t = "group_members" -> CoachesCanManageTheirGroupMembers(uid, r, d)

UpdateUsing(t, uid, r, d) ==
    CASE t = "profiles" -> UsersCanUpdateTheirOwnProfile(uid, r, d)
      [] t = "workouts" -> UsersCanUpdateTheirOwnWorkouts(uid, r, d)
      [] t = "workout_exercises" -> UsersCanUpdateTheirOwnWorkoutExercises(uid, r, d)
      [] t = "personal_bests" -> UsersCanManageTheirOwnPersonalBests(uid, r, d)
      [] t = "body_measurements" -> UsersCanManageTheirOwnMeasurements(uid, r, d)
      [] t = "user_achievements" -> FALSE
      [] t = "workout_templates" -> UsersCanUpdateTheirOwnTemplates(uid, r, d)
      [] t = "workout_shares" -> UsersCanManageTheirOwnShares(uid, r, d)
      [] t = "workout_likes" -> UsersCanManageTheirOwnLikes(uid, r, d)
      [] t = "user_follows" -> FALSE
      [] t = "coach_groups" -> CoachesCanManageTheirGroups(uid, r, d)
      [] t = "group_members" -> CoachesCanManageTheirGroupMembers(uid, r, d)

\* No UPDATE policy of the schema states WITH CHECK except body_measurements,
\* whose check repeats its USING: the new row is checked with USING.
UpdateCheck(t, uid, r, d) == UpdateUsing(t, uid, r, d)

DeleteUsing(t, uid, r, d) ==
    CASE t = "profiles" -> FALSE
      [] t = "workouts" -> UsersCanDeleteTheirOwnWorkouts(uid, r, d)
      [] t = "workout_exercises" -> UsersCanDeleteTheirOwnWorkoutExercises(uid, r, d)
      [] t = "personal_bests" -> UsersCanManageTheirOwnPersonalBests(uid, r, d)
      [] t = "body_measurements" -> UsersCanManageTheirOwnMeasurements(uid, r, d)
      [] t = "user_achievements" -> FALSE
      [] t = "workout_templates" -> UsersCanDeleteTheirOwnTemplates(uid, r, d)
      [] t = "workout_shares" -> UsersCanManageTheirOwnShares(uid, r, d)
      [] t = "workout_likes" -> UsersCanManageTheirOwnLikes(uid, r, d)
      [] t = "user_follows" -> UsersCanDeleteTheirOwnFollows(uid, r, d)
      [] t = "coach_groups" -> CoachesCanManageTheirGroups(uid, r, d)
      [] t = "group_members" -> CoachesCanManageTheirGroupMembers(uid, r, d)

(***************************************************************************)
(* Table constraints: foreign keys, UNIQUE, ON DELETE CASCADE.             *)
(***************************************************************************)
ForeignKeysOk(t, r, d) ==
    CASE t = "workout_exercises" -> \E w \in d.workouts : w.id = r.workout_id
      [] t = "workout_shares" -> \E w \in d.workouts : w.id = r.workout_id
      [] t = "workout_likes" -> \E s \in d.workout_shares : s.id = r.share_id
      [] t = "profiles" -> \E a \in d.auth_users : a.id = r.user_id
      [] t = "user_follows" ->
            /\ \E a \in d.auth_users : a.id = r.follower_id
            /\ \E a \in d.auth_users : a.id = r.following_id
      [] t = "coach_groups" -> \E a \in d.auth_users : a.id = r.coach_id
      [] t = "group_members" ->
            /\ \E g \in d.coach_groups : g.id = r.group_id
            /\ \E a \in d.auth_users : a.id = r.user_id
      [] OTHER -> TRUE

\* No UNIQUE constraint at all, for comparison.
UniqueIgnored(t, r, others) == TRUE

\* others: the rows of the table other than r itself.
UniqueOk(t, r, others) ==
    CASE t = "profiles" ->
            \A o \in others : o.user_id # r.user_id /\ o.username # r.username
      [] t = "personal_bests" ->
            \A o \in others : ~(o.user_id = r.user_id /\ o.exercise_id = r.exercise_id)
      [] t = "user_achievements" ->
            \A o \in others : ~(o.user_id = r.user_id /\ o.achievement_id = r.achievement_id)
      [] t = "workout_likes" ->
            \A o \in others : ~(o.share_id = r.share_id /\ o.user_id = r.user_id)
      [] t = "user_follows" ->
            \A o \in others :
                ~(o.follower_id = r.follower_id /\ o.following_id = r.following_id)
      [] t = "group_members" ->
            \A o \in others : ~(o.group_id = r.group_id /\ o.user_id = r.user_id)
      [] OTHER -> TRUE

\* No CHECK constraint at all, for comparison.
CheckIgnored(t, r) == TRUE

\* CHECK (follower_id != following_id)
CheckOk(t, r) ==
    CASE t = "user_follows" -> r.follower_id # r.following_id
      [] OTHER -> TRUE

\* Rows that reference a row no longer stored are deleted with it.
Cascade(d) ==
    LET shares == {s \in d.workout_shares : \E w \in d.workouts : w.id = s.workout_id}
    IN  [d EXCEPT
           !.workout_exercises = {x \in @ : \E w \in d.workouts : w.id = x.workout_id},
           !.workout_shares = shares,
           !.workout_likes = {l \in @ : \E s \in shares : s.id = l.share_id},
           !.group_members = {m \in @ : \E g \in d.coach_groups : g.id = m.group_id}]

(***************************************************************************)
(* Statements as the store executes them for the identity uid.             *)
(***************************************************************************)
\* SELECT: the rows the SELECT policies pass; a denied row is simply absent.
SelectRows(t, uid, d) ==
    {r \in d[t] : ~PolicyRecursion(t, "select") /\ SelectUsing(t, uid, r, d)}

\* INSERT of row r (without id): rejected with an error unless the checks pass.
InsertAllowed(t, uid, r, d) ==
    /\ ~PolicyRecursion(t, "insert")
    /\ InsertCheck(t, uid, r, d)
    /\ CheckOk(t, r)
    /\ ForeignKeysOk(t, r, d)
    /\ UniqueOk(t, r, d[t])

InsertRow(t, r, d) == [d EXCEPT ![t] = @ \cup {r}]

\* UPDATE ... WHERE id = i: the rows the caller may see and update.
UpdateTargets(t, uid, i, d) ==
    {r \in d[t] : /\ r.id = i
                  /\ ~PolicyRecursion(t, "update")
                  /\ SelectUsing(t, uid, r, d)
                  /\ UpdateUsing(t, uid, r, d)}

UpdateAllowed(t, uid, old, new, d) ==
    /\ UpdateCheck(t, uid, new, d)
    /\ CheckOk(t, new)
    /\ ForeignKeysOk(t, new, d)
    /\ UniqueOk(t, new, d[t] \ {old})

\* DELETE ... WHERE id = i
DeleteTargets(t, uid, i, d) ==
    {r \in d[t] : /\ r.id = i
                  /\ ~PolicyRecursion(t, "delete")
                  /\ SelectUsing(t, uid, r, d)
                  /\ DeleteUsing(t, uid, r, d)}

(***************************************************************************)
(* Statements issued straight to the store by any signed-in user, with     *)
(* any column values: the policies, not the pages, are the boundary.       *)
(***************************************************************************)
\* Column values a caller may send for a row of table t (the id is generated).
RowChoices(t, d) ==
    CASE t = "workouts" ->
            [user_id : Users, name : Names, duration_minutes : {0}]
      [] t = "workout_exercises" ->
            [workout_id : {w.id : w \in d.workouts}, exercise_id : ExerciseIds,
             sets : {1}, reps : {<<0>>}, weight : {<<0>>}]
      [] t = "body_measurements" -> [user_id : Users, weight : {70, 80}]
      [] t = "user_achievements" -> [user_id : Users, achievement_id : AchievementIds]
      [] t = "workout_templates" ->
            [creator_id : Users, is_public : BOOLEAN, times_used : {0}]
      [] t = "workout_shares" ->
            [workout_id : {w.id : w \in d.workouts}, user_id : Users, likes_count : {0}]
      [] t = "workout_likes" ->
            [share_id : {s.id : s \in d.workout_shares}, user_id : Users]
      [] t = "profiles" -> [user_id : Users, username : Usernames, total_points : {0}]
      [] t = "personal_bests" ->
            [user_id : Users, exercise_id : ExerciseIds, best_weight : {50}]
      [] t = "user_follows" -> [follower_id : Users, following_id : Users]
      [] t = "coach_groups" -> [coach_id : Users, name : {"Team"}]
      [] t = "group_members" ->
            [group_id : {g.id : g \in d.coach_groups}, user_id : Users]

WithId(r, i) == [c \in DOMAIN r \cup {"id"} |-> IF c = "id" THEN i ELSE r[c]]

\* A select answers with rows; a write answers with its status alone
\* (Prefer: return=minimal).
Response(kind, t, status, rows) ==
    [kind |-> kind, table |-> t, status |-> status, rows |-> rows]
WriteResponse(kind, status) == Response(kind, "", status, {})

\* The pages a handler of the Workout page leaves alone, and what a statement
\* issued straight to the store leaves alone.
otherPages == <<socialVars, templateVars, profileVars>>
otherVars == <<workoutVars, otherPages, appVars>>

\* The profiles row handle_new_user() inserts when a user signs up.
NewProfile(i, u) == [id |-> i, user_id |-> u, username |-> u, total_points |-> 0]

\* No saveWorkout call is running.  While one runs: pc is the insert it awaits,
\* request the workout row it sent, closure the workoutExercises array of the
\* render it was called in, workout the id of the row the store answered with,
\* payload the workout_exercises rows it sent.
NoSave == [pc |-> "idle", request |-> <<>>, closure |-> <<>>, workout |-> 0, payload |-> <<>>]

WorkoutPageInit ==
    /\ workoutName = ""
    /\ workoutExercises = <<>>
    /\ isLoading = FALSE
    /\ save = NoSave

\* No fetch and no handleLike call of the session's Social page is running.
Fetch(pc, data) == [pc |-> pc, data |-> data]
\* succeeded (history): the handleLike calls of the session the store accepted.
NoSocialCalls ==
    [shares |-> Fetch("none", {}), likes |-> Fetch("none", {}), likeCalls |-> <<>>,
     succeeded |-> 0]

\* The Social page as useState leaves it before its effect has run.
SocialPageInit ==
    /\ sharedWorkouts = [s \in Sessions |-> {}]
    /\ likedWorkouts = [s \in Sessions |-> {}]
    /\ socialCalls = [s \in Sessions |-> NoSocialCalls]

\* The templates stored when the Templates pages open: a public one of u1.
TemplateSeed == {[id |-> 1, creator_id |-> "u1", is_public |-> TRUE, times_used |-> 0]}

\* filter is the page's useState<'all' | 'mine' | 'public'>('all').
NoTemplateCalls == [filter |-> "all", fetch |-> Fetch("none", {}), useCalls |-> <<>>]

TemplatesPageInit ==
    /\ templates = [s \in Sessions |-> {}]
    /\ templateCalls = [s \in Sessions |-> NoTemplateCalls]
    /\ timesApplied = [u \in Users |-> [i \in {t.id : t \in TemplateSeed} |-> 0]]

\* null and {} of the Profile page's useState.
NoProfile == <<>>
NoProfileCalls == [fetch |-> Fetch("none", {}), save |-> <<>>]

ProfilePageInit ==
    /\ profile = NoProfile
    /\ editedProfile = NoProfile
    /\ isEditing = FALSE
    /\ saving = FALSE
    /\ profileCalls = NoProfileCalls

NoToast == ""

\* The Leaderboard, Dashboard and Analytics pages before their first fetch.
\* An absent value (null) is <<>>, a present one <<value>>.
ViewsInit ==
    /\ topUsers = <<>>
    /\ userRank = <<>>
    /\ dashboardProfile = <<>>
    /\ analyticsData = [totalWorkouts |-> 0, averageWorkoutTime |-> 0]

\* No value handed to a schema yet.
NoSubmission == <<>>

\* BodyTracker's formData as useState leaves it; the model keeps the four
\* fields bodyMeasurementSchema reads (the other six measures are sent the
\* same way and the schema strips them).
EmptyForm == [weight |-> "", height |-> "", body_fat_percentage |-> "", notes |-> ""]

\* No fetchMeasurements and no handleSubmit call is running.
NoBodyCalls == [fetch |-> Fetch("none", {}), submit |-> <<>>]

BodyTrackerPageInit ==
    /\ measurements = {}
    /\ loading = TRUE
    /\ showForm = FALSE
    /\ formData = EmptyForm
    /\ bodyCalls = NoBodyCalls

FormsInit ==
    /\ submission = NoSubmission
    /\ parsed = NoSubmission
    /\ BodyTrackerPageInit

\* Every page as useState leaves it, the router showing page p ("" for none).
PagesInit(p) ==
    /\ page = p
    /\ toasts = NoToast
    /\ WorkoutPageInit
    /\ SocialPageInit
    /\ TemplatesPageInit
    /\ ProfilePageInit
    /\ ViewsInit
    /\ FormsInit

\* The notification disappears (dismissed, or after its delay).  No handler
\* reads toasts, so the specifications let it disappear before the next step.
dismissToast ==
    /\ toasts # NoToast
    /\ toasts' = NoToast
    /\ UNCHANGED <<storeVars, workoutVars, otherPages, page, viewVars, formVars>>

StoreInit ==
    /\ db = EmptyDb
    /\ actor = "u1"
    /\ result = Response("none", "none", "ok", {})
    /\ PagesInit("")

\* .eq(col, val) filters of a query; NoFilter is a bare select('*').
NoFilter == [col |-> "", val |-> ""]
Filters(t) ==
    {NoFilter} \cup
    CASE t = "workout_exercises" -> [col : {"workout_id"}, val : {1, 2}]
      [] t = "workout_templates" ->
            [col : {"creator_id"}, val : Users] \cup [col : {"is_public"}, val : {TRUE}]
      [] t = "workout_likes" -> [col : {"user_id"}, val : Users]
      [] OTHER -> [col : {"user_id"}, val : Users]

Matches(f, r) == f.col = "" \/ r[f.col] = f.val

\* What a select (rows) or a head count (count) answers: never an error for a
\* row the policies hide.
Read(u, t, f, d) ==
    LET rows == {r \in SelectRows(t, u, d) : Matches(f, r)}
    IN  [status |-> IF PolicyRecursion(t, "select") THEN "error" ELSE "ok",
         rows |-> rows, count |-> Cardinality(rows)]

StoreSelect(u, t) ==
    /\ actor' = u
    /\ result' = Response("select", t, Read(u, t, NoFilter, db).status,
                          Read(u, t, NoFilter, db).rows)
    /\ UNCHANGED <<db, otherVars>>

StoreInsert(u, t, cap) ==
    /\ TotalRows(db) < cap
    /\ \E r \in RowChoices(t, db) :
          /\ actor' = u
          /\ IF InsertAllowed(t, u, r, db)
                THEN /\ db' = InsertRow(t, WithId(r, FreshId(db[t])), db)
                     /\ result' = WriteResponse("insert", "ok")
                ELSE /\ db' = db
                     /\ result' = WriteResponse("insert", "error")
    /\ UNCHANGED otherVars

StoreUpdate(u, t) ==
    /\ \E old \in db[t], r \in RowChoices(t, db) :
          LET new == WithId(r, old.id)
          IN  /\ actor' = u
              /\ IF PolicyRecursion(t, "update")
                    THEN /\ db' = db
                         /\ result' = WriteResponse("update", "error")
                    ELSE IF old \notin UpdateTargets(t, u, old.id, db)
                    THEN \* no row matches for this caller: nothing happens, no error
                         /\ db' = db
                         /\ result' = WriteResponse("update", "ok")
                    ELSE IF UpdateAllowed(t, u, old, new, db)
                            THEN /\ db' = [db EXCEPT ![t] = (@ \ {old}) \cup {new}]
                                 /\ result' = WriteResponse("update", "ok")
                            ELSE /\ db' = db
                                 /\ result' = WriteResponse("update", "error")
    /\ UNCHANGED otherVars

StoreDelete(u, t) ==
    /\ \E old \in db[t] :
          /\ actor' = u
          /\ db' = Cascade([db EXCEPT ![t] = @ \ DeleteTargets(t, u, old.id, db)])
          /\ result' = WriteResponse("delete", IF PolicyRecursion(t, "delete")
                                                  THEN "error" ELSE "ok")
    /\ UNCHANGED otherVars

\* The tables whose rows only their owner may see.
PrivateTables == {"workouts", "workout_exercises", "body_measurements", "user_achievements"}
PrivateStoreTables == PrivateTables \cup {"workout_templates"}
SocialStoreTables == {"workouts", "workout_shares", "workout_likes"}

PrivateNext ==
    \E u \in Users, t \in PrivateStoreTables :
        \/ StoreSelect(u, t)
        \/ StoreInsert(u, t, MaxPrivateRows)
        \/ StoreUpdate(u, t)
        \/ StoreDelete(u, t)

SocialStoreNext ==
    \E u \in Users, t \in SocialStoreTables :
        \/ StoreSelect(u, t)
        \/ StoreInsert(u, t, MaxSocialRows)
        \/ StoreUpdate(u, t)
        \/ StoreDelete(u, t)

SpecPrivate == StoreInit /\ [][PrivateNext]_vars
SpecSocialStore == StoreInit /\ [][SocialStoreNext]_vars

(***************************************************************************)
(* C2, C7: the private tables                                              *)
(***************************************************************************)
\* The user a row of a private table belongs to: its user_id, or for a
\* workout_exercise the user_id of its parent workout.
Owner(t, r, d) ==
    IF t = "workout_exercises"
        THEN (CHOOSE w \in d.workouts : w.id = r.workout_id).user_id
        ELSE r.user_id

RowsOwnedBy(u, d) == [t \in PrivateTables |-> {r \in d[t] : Owner(t, r, d) = u}]

C2_ReadsOnlyOwnRows ==
    (result.kind = "select" /\ result.table \in PrivateTables)
        => \A r \in result.rows : Owner(result.table, r, db) = actor

C2_WritesOnlyOwnRows ==
    \A u \in Users : u # actor' => RowsOwnedBy(u, db') = RowsOwnedBy(u, db)

\* C2: on workouts, workout_exercises, body_measurements and user_achievements a
\* select issued by a user returns only rows that user owns, and no statement a
\* user issues creates, changes or removes a row owned by another user.
C2_PrivateRowsIsolated == []C2_ReadsOnlyOwnRows /\ [][C2_WritesOnlyOwnRows]_vars

\* A select that returned the caller's rows while another user's row is stored
\* in the same table.
C2_Witness ==
    /\ result.kind = "select"
    /\ result.table \in PrivateTables
    /\ result.rows # {}
    /\ \E r \in db[result.table] : Owner(result.table, r, db) # actor

\* Rows u is not allowed to read, by ownership (not by the policies).
NotReadable(u, t, r, d) ==
    IF t = "workout_templates"
        THEN r.creator_id # u /\ r.is_public = FALSE
        ELSE Owner(t, r, d) # u

\* The stores that differ from d in one row u is not allowed to read: such a
\* row added, or removed (with the rows that cascade from it, which have the
\* same owner).  Any two stores that differ only in rows u may not read are
\* linked by a chain of these, a changed row being one removed and one added.
Variants(u, d) ==
    UNION {
        {InsertRow(t, WithId(r, FreshId(d[t])), d) :
            r \in {c \in RowChoices(t, d) :
                     /\ ForeignKeysOk(t, c, d)
                     /\ UniqueOk(t, c, d[t])
                     /\ NotReadable(u, t, c, d)}}
        \cup {Cascade([d EXCEPT ![t] = @ \ {old}]) :
                old \in {o \in d[t] : NotReadable(u, t, o, d)}}
        : t \in PrivateStoreTables}

\* C7: a read (select or count, with any filter) a user issues on a private
\* table answers the same in any two stores that differ only in rows that user
\* may not read, and never with an error.
C7_ReadsHideDeniedRows ==
    \A u \in Users : \A d2 \in Variants(u, db) :
        \A t \in PrivateStoreTables : \A f \in Filters(t) :
            /\ Read(u, t, f, db) = Read(u, t, f, d2)
            /\ Read(u, t, f, db).status = "ok"

\* A select answered with the caller's own rows while the table also holds a
\* row the caller may not read.
C7_Witness ==
    /\ result.kind = "select"
    /\ result.table \in PrivateStoreTables
    /\ result.rows # {}
    /\ \E r \in db[result.table] : NotReadable(actor, result.table, r, db)
    /\ Variants(actor, db) # {}

(***************************************************************************)
(* C3: workout_shares and workout_likes                                    *)
(***************************************************************************)
C3_ReadableByAll ==
    \A u \in Users : \A t \in {"workout_shares", "workout_likes"} :
        SelectRows(t, u, db) = db[t]

C3_WrittenByOwnerOnly ==
    /\ \A r \in db'.workout_shares \ db.workout_shares :
          /\ r.user_id = actor'
          /\ \E w \in db'.workouts : w.id = r.workout_id /\ w.user_id = r.user_id
    /\ \A r \in db.workout_shares \ db'.workout_shares :
          r.user_id = actor' \/ ~\E w \in db'.workouts : w.id = r.workout_id
    /\ \A r \in db'.workout_likes \ db.workout_likes : r.user_id = actor'
    /\ \A r \in db.workout_likes \ db'.workout_likes :
          r.user_id = actor' \/ ~\E x \in db'.workout_shares : x.id = r.share_id

\* C3: every user can read every workout_share and workout_like row; a
\* statement creates, changes or removes such a row only if its user_id is the
\* caller (rows that go with a deleted parent aside), and a workout_share row
\* is created only for a workout its user_id owns.
C3_SharesWritableByOwnerOnly == []C3_ReadableByAll /\ [][C3_WrittenByOwnerOnly]_vars

(***************************************************************************)
(* The Workout page (const Workout): the editor of the exercise list and   *)
(* saveWorkout.  The page belongs to one signed-in user.                   *)
(***************************************************************************)
PageUser == "u1"

\* Bounds of the page specification: the editor and the stored
\* workout_exercises hold at most MaxSets sets in all, and at most
\* MaxWorkouts workouts are saved.
MaxSets == 2
MaxWorkouts == 2

WorkoutNameInputs == {"", " ", "Leg"}
RepsInputs == {0, 8}
WeightInputs == {0, 50}

\* String.prototype.trim: the white space at both ends goes, the white space
\* inside stays.  The model types spaces only.
WhiteSpace == {" "}

RECURSIVE TrimStart(_)
TrimStart(str) ==
    IF str # "" /\ Head(str) \in WhiteSpace THEN TrimStart(Tail(str)) ELSE str

RECURSIVE TrimEnd(_)
TrimEnd(str) ==
    IF str # "" /\ SubSeq(str, Len(str), Len(str)) \in WhiteSpace
       THEN TrimEnd(SubSeq(str, 1, Len(str) - 1))
       ELSE str

Trim(str) == TrimEnd(TrimStart(str))

\* exercises.find(ex => ex.id === value)?.name || ''
ExerciseName(value) ==
    CASE value = "e1" -> "Bench Press"
      [] OTHER -> ""

RECURSIVE SumSets(_)
SumSets(list) == IF list = <<>> THEN 0 ELSE list[1].sets + SumSets(Tail(list))

RECURSIVE SetSum(_)
SetSum(rows) ==
    IF rows = {} THEN 0
    ELSE LET r == CHOOSE x \in rows : TRUE IN r.sets + SetSum(rows \ {r})

RECURSIVE SumDropped(_)
SumDropped(closure) ==
    IF closure = <<>> THEN 0
    ELSE (IF closure[1].live THEN 0 ELSE closure[1].entry.sets) + SumDropped(Tail(closure))

\* The sets held by the editor, by the running saveWorkout (captured entries no
\* longer listed, rows sent) and by the store.
SetsHeld ==
    SumSets(workoutExercises) + SumDropped(save.closure) + SumSets(save.payload)
        + SetSum(db.workout_exercises)

\* Array.prototype.splice(i, 1), i counted from 1.
RemoveAt(seq, i) == [j \in 1..(Len(seq) - 1) |-> IF j < i THEN seq[j] ELSE seq[j + 1]]

NewExercise ==
    [exerciseId |-> "", exerciseName |-> "", sets |-> 1, reps |-> <<0>>, weight |-> <<0>>]

\* updateExercise(index, 'exerciseId', value) on the entry object
SelectExerciseOf(ex, value) ==
    [ex EXCEPT !.exerciseId = value, !.exerciseName = ExerciseName(value)]

\* updateSet on the entry object
UpdateSetOf(ex, setIndex, field, value) ==
    IF field = "reps"
        THEN [ex EXCEPT !.reps[setIndex] = value]
        ELSE [ex EXCEPT !.weight[setIndex] = value]

\* An addSet that pushes to reps alone, for comparison.
AddSetToRepsOnly(ex) == [ex EXCEPT !.sets = @ + 1, !.reps = Append(@, 0)]
AddSetTo(ex) ==
    [ex EXCEPT !.sets = @ + 1, !.reps = Append(@, 0), !.weight = Append(@, 0)]

\* removeSet on the entry object
RemoveSetFrom(ex, setIndex) ==
    IF ex.sets > 1
        THEN [ex EXCEPT !.sets = @ - 1, !.reps = RemoveAt(@, setIndex),
                        !.weight = RemoveAt(@, setIndex)]
        ELSE ex

\* The handlers copy the array ([...workoutExercises]) but mutate the entry
\* object in place: the array a running saveWorkout captured holds the same
\* objects, so it sees the change.  save.closure names each captured entry by
\* its place in workoutExercises while it is still listed there (live), and
\* holds the object as it was left once removeExercise dropped it.
MutateEntry(index, changed) ==
    /\ workoutExercises' = [workoutExercises EXCEPT ![index] = changed]
    /\ UNCHANGED save

Captured(index) == [live |-> TRUE, index |-> index, entry |-> <<>>]

CapturedEntries ==
    [i \in DOMAIN save.closure |->
        IF save.closure[i].live
            THEN workoutExercises[save.closure[i].index]
            ELSE save.closure[i].entry]

setWorkoutName(value) ==
    /\ workoutName' = value
    /\ UNCHANGED <<workoutExercises, isLoading, save, storeVars, otherPages, appVars>>

addExercise ==
    /\ SetsHeld < MaxSets
    /\ workoutExercises' = Append(workoutExercises, NewExercise)
    /\ UNCHANGED <<workoutName, isLoading, save, storeVars, otherPages, appVars>>

\* The Select of an entry offers the fetched exercises.
updateExercise(index, value) ==
    /\ index \in DOMAIN workoutExercises
    /\ MutateEntry(index, SelectExerciseOf(workoutExercises[index], value))
    /\ UNCHANGED <<workoutName, isLoading, storeVars, otherPages, appVars>>

\* The set rows of an entry are rendered once an exercise is selected, one row
\* per set: indices are those of rendered rows.
updateSet(exerciseIndex, setIndex, field, value) ==
    /\ exerciseIndex \in DOMAIN workoutExercises
    /\ workoutExercises[exerciseIndex].exerciseId # ""
    /\ setIndex \in 1..workoutExercises[exerciseIndex].sets
    /\ MutateEntry(exerciseIndex, UpdateSetOf(workoutExercises[exerciseIndex], setIndex, field, value))
    /\ UNCHANGED <<workoutName, isLoading, storeVars, otherPages, appVars>>

addSet(exerciseIndex) ==
    /\ exerciseIndex \in DOMAIN workoutExercises
    /\ workoutExercises[exerciseIndex].exerciseId # ""
    /\ SetsHeld < MaxSets
    /\ MutateEntry(exerciseIndex, AddSetTo(workoutExercises[exerciseIndex]))
    /\ UNCHANGED <<workoutName, isLoading, storeVars, otherPages, appVars>>

\* The remove button of a set row is disabled while sets === 1.
removeSet(exerciseIndex, setIndex) ==
    /\ exerciseIndex \in DOMAIN workoutExercises
    /\ workoutExercises[exerciseIndex].exerciseId # ""
    /\ setIndex \in 1..workoutExercises[exerciseIndex].sets
    /\ workoutExercises[exerciseIndex].sets # 1
    /\ MutateEntry(exerciseIndex, RemoveSetFrom(workoutExercises[exerciseIndex], setIndex))
    /\ UNCHANGED <<workoutName, isLoading, storeVars, otherPages, appVars>>

\* workoutExercises.filter((_, i) => i !== index): a new array, the captured
\* one keeps the entry.
removeExercise(index) ==
    /\ index \in DOMAIN workoutExercises
    /\ workoutExercises' = RemoveAt(workoutExercises, index)
    /\ save' = [save EXCEPT !.closure =
                  [i \in DOMAIN @ |->
                      IF ~@[i].live THEN @[i]
                      ELSE IF @[i].index = index
                              THEN [live |-> FALSE, index |-> 0,
                                    entry |-> workoutExercises[index]]
                      ELSE IF @[i].index > index
                              THEN Captured(@[i].index - 1)
                      ELSE @[i]]]
    /\ UNCHANGED <<workoutName, isLoading, storeVars, otherPages, appVars>>

\* The achievements the migration seeds, by their unlock condition.
AchievementSeed ==
    [a \in AchievementIds |->
        IF a = "first_workout"
            THEN [points_reward |-> 100, requirement_type |-> "workouts_count",
                  requirement_value |-> 1]
            ELSE [points_reward |-> 300, requirement_type |-> "streak_days",
                  requirement_value |-> 7]]

\* workoutExercises.filter(ex => ex.exerciseId).map(ex => ({workout_id: workout.id, ...}))
\* (WorkoutExerciseDataWithoutWorkout: the same rows built without workout.id.)
WorkoutExerciseDataWithoutWorkout(list, workoutId) ==
    [i \in DOMAIN SelectSeq(list, LAMBDA ex : ex.exerciseId # "") |->
        LET ex == SelectSeq(list, LAMBDA e : e.exerciseId # "")[i]
        IN  [workout_id |-> 0, exercise_id |-> ex.exerciseId,
             sets |-> ex.sets, reps |-> ex.reps, weight |-> ex.weight]]
WorkoutExerciseData(list, workoutId) ==
    [i \in DOMAIN SelectSeq(list, LAMBDA ex : ex.exerciseId # "") |->
        LET ex == SelectSeq(list, LAMBDA e : e.exerciseId # "")[i]
        IN  [workout_id |-> workoutId, exercise_id |-> ex.exerciseId,
             sets |-> ex.sets, reps |-> ex.reps, weight |-> ex.weight]]

MaxId(rows) ==
    IF rows = {} THEN 0 ELSE CHOOSE m \in {r.id : r \in rows} : \A r \in rows : r.id <= m

\* The rows of one INSERT, each with a generated id.
InsertedRows(payload, rows) ==
    {WithId(payload[i], MaxId(rows) + i) : i \in DOMAIN payload}

\* saveWorkout up to its first await: the guard, then the insert into workouts.
\* The Save button is rendered once a name or an entry exists and is disabled
\* while isLoading.
saveWorkout ==
    /\ isLoading = FALSE
    /\ Trim(workoutName) # "" \/ Len(workoutExercises) > 0
    /\ IF Trim(workoutName) = "" \/ Len(workoutExercises) = 0
          THEN \* toast "Invalid workout"; return
               /\ toasts' = "Invalid workout"
               /\ UNCHANGED <<isLoading, save>>
          ELSE /\ Cardinality(db.workouts) < MaxWorkouts
               /\ isLoading' = TRUE
               /\ UNCHANGED toasts
               /\ save' = [pc |-> "workout",
                           request |-> [user_id |-> PageUser, name |-> workoutName,
                                        duration_minutes |-> 0],
                           closure |-> [i \in DOMAIN workoutExercises |-> Captured(i)],
                           workout |-> 0, payload |-> <<>>]
    /\ UNCHANGED <<workoutName, workoutExercises, storeVars, otherPages, page, viewVars, formVars>>

\* catch (error) { toast "Failed to save workout" } finally { setIsLoading(false) }
SaveFailed ==
    /\ toasts' = "Failed to save workout"
    /\ isLoading' = FALSE
    /\ save' = NoSave

\* The store answers the insert into workouts (fails: a policy, or the
\* transport) and saveWorkout runs to its second await: on an error it throws,
\* else it sends the workout_exercises rows built from the captured entries.
saveWorkoutInsertedWorkout ==
    /\ save.pc = "workout"
    /\ \E transportError \in BOOLEAN :
          LET workout == WithId(save.request, FreshId(db.workouts))
              workoutError ==
                  transportError \/ ~InsertAllowed("workouts", PageUser, save.request, db)
          IN  IF workoutError
                 THEN /\ SaveFailed
                      /\ UNCHANGED db
                 ELSE /\ db' = InsertRow("workouts", workout, db)
                      /\ save' = [save EXCEPT
                                    !.pc = "exercises",
                                    !.workout = workout.id,
                                    !.closure = <<>>,
                                    !.payload = WorkoutExerciseData(CapturedEntries, workout.id)]
                      /\ UNCHANGED <<isLoading, toasts>>
    /\ UNCHANGED <<workoutName, workoutExercises, actor, result, otherPages, page, viewVars, formVars>>

\* The store answers the insert into workout_exercises and saveWorkout ends:
\* on success it resets the form.
saveWorkoutInsertedExercises ==
    /\ save.pc = "exercises"
    /\ \E transportError \in BOOLEAN :
          LET exerciseError ==
                  \/ transportError
                  \/ \E i \in DOMAIN save.payload :
                        ~InsertAllowed("workout_exercises", PageUser, save.payload[i], db)
          IN  IF exerciseError
                 THEN /\ SaveFailed
                      /\ UNCHANGED <<db, workoutName, workoutExercises>>
                 ELSE /\ db' = [db EXCEPT !.workout_exercises =
                                   @ \cup InsertedRows(save.payload, @)]
                      \* toast "Workout saved!", then the form is reset
                      /\ toasts' = "Workout saved!"
                      /\ workoutName' = ""
                      /\ workoutExercises' = <<>>
                      /\ isLoading' = FALSE
                      /\ save' = NoSave
    /\ UNCHANGED <<actor, result, otherPages, page, viewVars, formVars>>

WorkoutInit ==
    /\ db = [EmptyDb EXCEPT !.profiles = {NewProfile(1, PageUser)}]
    /\ actor = PageUser
    /\ result = Response("none", "none", "ok", {})
    /\ PagesInit("workout")

\* One step of the Workout page.
WorkoutStep ==
    \/ \E value \in WorkoutNameInputs : setWorkoutName(value)
    \/ addExercise
    \/ \E index \in 1..MaxSets, value \in ExerciseIds : updateExercise(index, value)
    \/ \E exerciseIndex \in 1..MaxSets, setIndex \in 1..MaxSets :
          \/ \E value \in RepsInputs : updateSet(exerciseIndex, setIndex, "reps", value)
          \/ \E value \in WeightInputs : updateSet(exerciseIndex, setIndex, "weight", value)
          \/ removeSet(exerciseIndex, setIndex)
    \/ \E exerciseIndex \in 1..MaxSets : addSet(exerciseIndex)
    \/ \E index \in 1..MaxSets : removeExercise(index)
    \/ saveWorkout
    \/ saveWorkoutInsertedWorkout
    \/ saveWorkoutInsertedExercises

WorkoutNext ==
    \/ dismissToast
    \/ toasts = NoToast /\ WorkoutStep

SpecWorkout == WorkoutInit /\ [][WorkoutNext]_vars

(***************************************************************************)
(* C8, C9: the editor and the order of the two inserts of saveWorkout      *)
(***************************************************************************)
ArraysMatchSets(ex) ==
    /\ Len(ex.reps) = ex.sets
    /\ Len(ex.weight) = ex.sets
    /\ ex.sets >= 1

\* C8: every entry of the editor, every entry a running saveWorkout captured
\* and every workout_exercises row sent to or stored in the store has
\* reps and weight arrays of length sets, and sets >= 1.
C8_RepsAndWeightMatchSets ==
    /\ \A i \in DOMAIN workoutExercises : ArraysMatchSets(workoutExercises[i])
    /\ \A i \in DOMAIN save.closure : ArraysMatchSets(CapturedEntries[i])
    /\ \A i \in DOMAIN save.payload : ArraysMatchSets(save.payload[i])
    /\ \A r \in db.workout_exercises : ArraysMatchSets(r)

\* A stored row of two sets with typed values: addExercise, updateExercise,
\* addSet, updateSet and saveWorkout have acted.
C8_Witness ==
    \E r \in db.workout_exercises : r.sets = 2 /\ r.reps[2] = 8 /\ r.weight[1] = 50

C9_ExercisesSentAfterWorkout ==
    /\ save.pc = "exercises" =>
          /\ \E w \in db.workouts : w.id = save.workout /\ w.user_id = PageUser
          /\ \A i \in DOMAIN save.payload : save.payload[i].workout_id = save.workout
    /\ save.pc # "exercises" => save.payload = <<>>
    /\ \A r \in db.workout_exercises : \E w \in db.workouts : w.id = r.workout_id

C9_SentOnlyOnSuccess ==
    (save'.pc = "exercises" /\ save.pc # "exercises")
        => /\ save.pc = "workout"
           /\ db'.workouts = db.workouts \cup {WithId(save.request, save'.workout)}
           /\ WithId(save.request, save'.workout) \notin db.workouts

\* C9: saveWorkout sends the workout_exercises rows only in the step in which
\* the insert of its workout row succeeded, every row it sends or stores
\* carries the id generated for that workout row, and when the insert of the
\* workout fails no rows are sent.
C9_ExercisesFollowWorkout ==
    []C9_ExercisesSentAfterWorkout /\ [][C9_SentOnlyOnSuccess]_vars

\* saveWorkout awaits the insert of two exercise rows for the workout it created.
C9_Witness ==
    /\ save.pc = "exercises"
    /\ Len(save.payload) = 2
    /\ \E w \in db.workouts : w.id = save.workout

(***************************************************************************)
(* C4, C5, C6: what saveWorkout leaves in user_achievements, profiles and  *)
(* personal_bests                                                          *)
(***************************************************************************)
WorkoutsCount(u, d) == Cardinality({w \in d.workouts : w.user_id = u})
Grants(u, a, d) == {g \in d.user_achievements : g.user_id = u /\ g.achievement_id = a}
TotalPoints(u, d) == (CHOOSE p \in d.profiles : p.user_id = u).total_points

\* saveWorkout ended in this step with both inserts done.
SaveSucceeded ==
    /\ save.pc = "exercises"
    /\ save'.pc = "idle"
    /\ db'.workout_exercises = db.workout_exercises \cup InsertedRows(save.payload, db.workout_exercises)
    /\ workoutExercises' = <<>>

\* C4: once the user has saved a first workout and no save is running, there is
\* exactly one user_achievement row for (user, first_workout) and total_points
\* holds its points_reward exactly once, however many workouts were saved since.
C4_FirstWorkoutGrantedOnce ==
    (save.pc = "idle" /\ WorkoutsCount(PageUser, db) >= 1
        /\ \E r \in db.workout_exercises : TRUE)
        => /\ Cardinality(Grants(PageUser, "first_workout", db)) = 1
           /\ TotalPoints(PageUser, db) = AchievementSeed["first_workout"].points_reward

\* C5: a save that brings the user's number of workouts to the requirement_value
\* of a workouts_count achievement the user does not hold inserts the
\* user_achievement row and adds points_reward to total_points.
C5_GrantedWhenThresholdMet ==
    [][\A a \in AchievementIds :
          (/\ SaveSucceeded
           /\ AchievementSeed[a].requirement_type = "workouts_count"
           /\ WorkoutsCount(PageUser, db') >= AchievementSeed[a].requirement_value
           /\ Grants(PageUser, a, db) = {})
          => /\ Grants(PageUser, a, db') # {}
             /\ TotalPoints(PageUser, db') =
                    TotalPoints(PageUser, db) + AchievementSeed[a].points_reward]_vars

SeqMax(seq) == CHOOSE m \in {seq[i] : i \in DOMAIN seq} : \A i \in DOMAIN seq : seq[i] <= m
Bests(u, e, d) == {b \in d.personal_bests : b.user_id = u /\ b.exercise_id = e}
PreviousBest(u, e, d) ==
    IF Bests(u, e, d) = {} THEN 0 ELSE (CHOOSE b \in Bests(u, e, d) : TRUE).best_weight
Larger(a, b) == IF a >= b THEN a ELSE b

\* C6: when saveWorkout has recorded a workout_exercise of an exercise with
\* weights W that beat or equal a positive weight, the personal_best row of
\* (user, exercise) holds max(previous best_weight, max(W)); and no step lowers
\* a stored best_weight.
C6_BestWeightIsMaximum ==
    [][/\ SaveSucceeded =>
            \A i \in DOMAIN save.payload :
                LET e == save.payload[i].exercise_id
                    best == Larger(PreviousBest(PageUser, e, db), SeqMax(save.payload[i].weight))
                IN  best > 0 =>
                        \E b \in Bests(PageUser, e, db') : b.best_weight >= best
       /\ \A b \in db.personal_bests :
             \A c \in Bests(b.user_id, b.exercise_id, db') : c.best_weight >= b.best_weight]_vars

(***************************************************************************)
(* Social page: the feed of shared workouts and the like button            *)
(***************************************************************************)
MaxLikeCalls == 1
MaxLikes == 4

Null == <<>>

\* from('workout_shares').select('*, workouts(name, duration_minutes)'): the
\* embedded workout is read under the caller's policies on workouts.
SharesWithWorkouts(u, d) ==
    {[id |-> r.id, workout_id |-> r.workout_id, user_id |-> r.user_id,
      likes_count |-> r.likes_count,
      workouts |-> IF \E w \in SelectRows("workouts", u, d) : w.id = r.workout_id
                      THEN LET w == CHOOSE w \in d.workouts : w.id = r.workout_id
                           IN  [name |-> w.name, duration_minutes |-> w.duration_minutes]
                      ELSE Null]
        : r \in SelectRows("workout_shares", u, d)}

\* from('profiles').select('user_id, username, ...').in('user_id', userIds)
ProfilesIn(u, userIds, d) ==
    {[user_id |-> r.user_id, username |-> r.username]
        : r \in {q \in SelectRows("profiles", u, d) : q.user_id \in userIds}}

enrichedShares(shares, profiles) ==
    {[id |-> share.id, workout_id |-> share.workout_id, user_id |-> share.user_id,
      likes_count |-> share.likes_count, workouts |-> share.workouts,
      profiles |-> IF \E q \in profiles : q.user_id = share.user_id
                      THEN [username |-> (CHOOSE q \in profiles : q.user_id = share.user_id).username]
                      ELSE [username |-> "Unknown"]]
        : share \in shares}

\* useEffect(() => { fetchSharedWorkouts(); fetchUserLikes(); }, []) of a page
\* opened or opened again: fresh state, both fetches sent; the calls of the
\* page instance left behind still reach the store but set no state.
MountSocial(s) ==
    /\ sharedWorkouts' = [sharedWorkouts EXCEPT ![s] = {}]
    /\ likedWorkouts' = [likedWorkouts EXCEPT ![s] = {}]
    /\ socialCalls' = [socialCalls EXCEPT ![s] =
          [shares |-> Fetch("sent", {}), likes |-> Fetch("sent", {}),
           likeCalls |-> [i \in DOMAIN @.likeCalls |-> [@.likeCalls[i] EXCEPT !.mounted = FALSE]],
           succeeded |-> @.succeeded]]
    /\ UNCHANGED <<storeVars, workoutVars, templateVars, profileVars, appVars>>

\* fetchSharedWorkouts up to its second await: the shares have arrived.
fetchSharedWorkoutsGotShares(s) ==
    /\ socialCalls[s].shares.pc = "sent"
    /\ \E sharesError \in BOOLEAN :
          /\ socialCalls' = [socialCalls EXCEPT ![s].shares =
                IF sharesError THEN Fetch("none", {})   \* toast, setLoading(false)
                ELSE Fetch("profiles", SharesWithWorkouts(SessionUser(s), db))]
          /\ toasts' = IF sharesError THEN "Error" ELSE toasts
    /\ UNCHANGED <<storeVars, workoutVars, sharedWorkouts, likedWorkouts, templateVars, profileVars, page, viewVars, formVars>>

\* fetchSharedWorkouts from the answer to its profiles query to its end.
fetchSharedWorkoutsGotProfiles(s) ==
    /\ socialCalls[s].shares.pc = "profiles"
    /\ \E profilesError \in BOOLEAN :
          LET shares == socialCalls[s].shares.data
              userIds == {share.user_id : share \in shares}
              profiles == ProfilesIn(SessionUser(s), userIds, db)
          IN  /\ sharedWorkouts' = [sharedWorkouts EXCEPT ![s] =
                    IF profilesError THEN @ ELSE enrichedShares(shares, profiles)]
              /\ toasts' = IF profilesError THEN "Error" ELSE toasts
    /\ socialCalls' = [socialCalls EXCEPT ![s].shares = Fetch("none", {})]
    /\ UNCHANGED <<storeVars, workoutVars, likedWorkouts, templateVars, profileVars, page, viewVars, formVars>>

\* fetchUserLikes: the store answers the select ...
fetchUserLikesAnswered(s) ==
    /\ socialCalls[s].likes.pc = "sent"
    /\ \E error \in BOOLEAN :
          socialCalls' = [socialCalls EXCEPT ![s].likes =
              IF error THEN Fetch("none", {})   \* console.error
              ELSE Fetch("answered", {like.share_id :
                        like \in {r \in SelectRows("workout_likes", SessionUser(s), db) :
                                     r.user_id = SessionUser(s)}})]
    /\ UNCHANGED <<storeVars, workoutVars, sharedWorkouts, likedWorkouts, templateVars, profileVars, appVars>>

\* ... and the page receives the answer.
fetchUserLikes(s) ==
    /\ socialCalls[s].likes.pc = "answered"
    /\ likedWorkouts' = [likedWorkouts EXCEPT ![s] = socialCalls[s].likes.data]
    /\ socialCalls' = [socialCalls EXCEPT ![s].likes = Fetch("none", {})]
    /\ UNCHANGED <<storeVars, workoutVars, sharedWorkouts, templateVars, profileVars, appVars>>

\* handleLike up to its await: the click on the heart of a displayed share,
\* with fewer than cap calls of the session in flight (the button is never
\* disabled).
handleLikeWhile(s, shareId, cap) ==
    /\ \E workout \in sharedWorkouts[s] : workout.id = shareId
    /\ Len(socialCalls[s].likeCalls) < cap
    /\ socialCalls[s].succeeded + Len(socialCalls[s].likeCalls) < MaxLikes
    /\ socialCalls' = [socialCalls EXCEPT ![s].likeCalls =
          Append(@, [shareId |-> shareId, isLiked |-> shareId \in likedWorkouts[s],
                     mounted |-> TRUE])]
    /\ UNCHANGED <<storeVars, workoutVars, sharedWorkouts, likedWorkouts, templateVars, profileVars, appVars>>

handleLike(s, shareId) == handleLikeWhile(s, shareId, MaxLikeCalls)

\* A change of the displayed count that ignores the sign, for comparison.
ChangeLikesCountUpOnly(shown, shareId, by) ==
    {IF workout.id = shareId
        THEN [workout EXCEPT !.likes_count = @ + 1]
        ELSE workout : workout \in shown}

ChangeLikesCount(shown, shareId, by) ==
    {IF workout.id = shareId
        THEN [workout EXCEPT !.likes_count = @ + by]
        ELSE workout : workout \in shown}

\* handleLike from the store's answer to its end, for the i-th call in flight.
handleLikeAnswered(s, i) ==
    /\ i \in DOMAIN socialCalls[s].likeCalls
    /\ LET call == socialCalls[s].likeCalls[i]
           uid == SessionUser(s)
           row == [share_id |-> call.shareId, user_id |-> uid]
           deleted == {r \in db.workout_likes :
                          /\ r.share_id = call.shareId
                          /\ r.user_id = uid
                          /\ SelectUsing("workout_likes", uid, r, db)
                          /\ DeleteUsing("workout_likes", uid, r, db)}
       IN  \E transportError \in BOOLEAN :
             LET error == transportError
                            \/ (~call.isLiked /\ ~InsertAllowed("workout_likes", uid, row, db))
             IN  /\ db' = IF error THEN db
                          ELSE IF call.isLiked
                                  THEN [db EXCEPT !.workout_likes = @ \ deleted]
                                  ELSE InsertRow("workout_likes",
                                                 WithId(row, FreshId(db.workout_likes)), db)
                 /\ toasts' = IF error THEN "Error" ELSE toasts
                 /\ IF error \/ ~call.mounted
                       THEN UNCHANGED <<likedWorkouts, sharedWorkouts>>
                       ELSE /\ likedWorkouts' = [likedWorkouts EXCEPT ![s] =
                                   IF call.isLiked THEN @ \ {call.shareId}
                                   ELSE @ \cup {call.shareId}]
                            /\ sharedWorkouts' = [sharedWorkouts EXCEPT ![s] =
                                   ChangeLikesCount(@, call.shareId,
                                                    IF call.isLiked THEN -1 ELSE 1)]
                 /\ socialCalls' = [socialCalls EXCEPT
                       ![s].likeCalls = RemoveAt(@, i),
                       ![s].succeeded = IF error THEN @ ELSE @ + 1]
    /\ UNCHANGED <<actor, result, workoutVars, templateVars, profileVars, page, viewVars, formVars>>

\* Two users, a workout of u1 shared by u1, nobody has liked it.
SocialInit ==
    /\ db = [EmptyDb EXCEPT
               !.profiles = {NewProfile(1, "u1"), NewProfile(2, "u2")},
               !.workouts = {[id |-> 1, user_id |-> "u1", name |-> "Leg", duration_minutes |-> 0]},
               !.workout_shares = {[id |-> 1, workout_id |-> 1, user_id |-> "u1", likes_count |-> 0]}]
    /\ actor = "u1"
    /\ result = Response("none", "none", "ok", {})
    /\ PagesInit("social")

\* The sessions that open the feed: one device of each user.
SocialSessions == {"s2", "s3"}

\* One step of the Social page of session s.
SocialStep(s) ==
    \/ MountSocial(s)
    \/ fetchSharedWorkoutsGotShares(s)
    \/ fetchSharedWorkoutsGotProfiles(s)
    \/ fetchUserLikesAnswered(s)
    \/ fetchUserLikes(s)
    \/ \E shareId \in {share.id : share \in db.workout_shares} : handleLike(s, shareId)
    \/ \E i \in 1..MaxLikeCalls : handleLikeAnswered(s, i)

SocialNext ==
    \/ dismissToast
    \/ toasts = NoToast /\ \E s \in SocialSessions : SocialStep(s)

SpecSocial == SocialInit /\ [][SocialNext]_vars

LikesOf(shareId, d) == {like \in d.workout_likes : like.share_id = shareId}

\* C1: in every state reached by likes and unlikes of any users, the stored
\* likes_count of every workout_share equals the number of workout_like rows
\* for that share.
C1_LikesCountMatchesRows ==
    \A share \in db.workout_shares :
        share.likes_count = Cardinality(LikesOf(share.id, db))

(***************************************************************************)
(* Templates page: the list of templates and the use button                *)
(***************************************************************************)
MaxUses == 2
TemplateFilters == {"all", "mine", "public"}

\* from('workout_templates').select('*'), with the .eq() of the filter.
TemplatesQuery(u, filter, d) ==
    {t \in SelectRows("workout_templates", u, d) :
        CASE filter = "mine" -> t.creator_id = u
          [] filter = "public" -> t.is_public = TRUE
          [] OTHER -> TRUE}

\* useEffect(() => { fetchTemplates(); }, [filter]) of a page opened or opened
\* again; the calls of the page instance left behind still reach the store.
MountTemplates(s) ==
    /\ templates' = [templates EXCEPT ![s] = {}]
    /\ templateCalls' = [templateCalls EXCEPT ![s] =
          [filter |-> "all", fetch |-> Fetch("sent", {}),
           useCalls |-> [i \in DOMAIN @.useCalls |-> [@.useCalls[i] EXCEPT !.mounted = FALSE]]]]
    /\ UNCHANGED <<storeVars, workoutVars, socialVars, profileVars, appVars, timesApplied>>

\* setFilter(value) of a filter button, and the effect it triggers.
setFilter(s, value) ==
    /\ templateCalls[s].filter # value
    /\ templateCalls' = [templateCalls EXCEPT ![s].filter = value,
                                              ![s].fetch = Fetch("sent", {})]
    /\ UNCHANGED <<storeVars, workoutVars, socialVars, profileVars, appVars, templates, timesApplied>>

\* fetchTemplates: the store answers the select ...
fetchTemplatesAnswered(s) ==
    /\ templateCalls[s].fetch.pc = "sent"
    /\ \E error \in BOOLEAN :
          /\ templateCalls' = [templateCalls EXCEPT ![s].fetch =
                IF error THEN Fetch("none", {})   \* toast, setLoading(false)
                ELSE Fetch("answered",
                           TemplatesQuery(SessionUser(s), templateCalls[s].filter, db))]
          /\ toasts' = IF error THEN "Error" ELSE toasts
    /\ UNCHANGED <<storeVars, workoutVars, socialVars, profileVars, page, viewVars, formVars, templates, timesApplied>>

\* ... and the page receives the answer: setTemplates(data || []).
fetchTemplates(s) ==
    /\ templateCalls[s].fetch.pc = "answered"
    /\ templates' = [templates EXCEPT ![s] = templateCalls[s].fetch.data]
    /\ templateCalls' = [templateCalls EXCEPT ![s].fetch = Fetch("none", {})]
    /\ UNCHANGED <<storeVars, workoutVars, socialVars, profileVars, appVars, timesApplied>>

UsesInFlight == {<<s, i>> \in Sessions \X (1..MaxUses) : i \in DOMAIN templateCalls[s].useCalls}

RECURSIVE Applied(_, _)
Applied(U, templateId) ==
    IF U = {} THEN 0
    ELSE LET u == CHOOSE x \in U : TRUE
         IN  timesApplied[u][templateId] + Applied(U \ {u}, templateId)

\* useTemplate's new value: templates.find(t => t.id === templateId)!.times_used + 1,
\* computed from the row the page displays.
TimesUsedPlusOne(shown, stored) == shown.times_used + 1

\* useTemplate up to its await: the click on Use Template of a displayed template.
useTemplate(s, templateId) ==
    /\ \E t \in templates[s] : t.id = templateId
    /\ templateCalls[s].useCalls = <<>>
    /\ Applied(Users, templateId) + Cardinality(UsesInFlight) < MaxUses
    /\ templateCalls' = [templateCalls EXCEPT ![s].useCalls =
          Append(@, [templateId |-> templateId,
                     shown |-> CHOOSE t \in templates[s] : t.id = templateId,
                     mounted |-> TRUE])]
    /\ UNCHANGED <<storeVars, workoutVars, socialVars, profileVars, appVars, templates, timesApplied>>

\* useTemplate from the store's answer to its end.
useTemplateAnswered(s, i) ==
    /\ i \in DOMAIN templateCalls[s].useCalls
    /\ LET call == templateCalls[s].useCalls[i]
           uid == SessionUser(s)
           targets == UpdateTargets("workout_templates", uid, call.templateId, db)
       IN  \E transportError \in BOOLEAN :
             /\ db' = IF transportError THEN db
                      ELSE [db EXCEPT !.workout_templates =
                              {IF t \in targets
                                  THEN [t EXCEPT !.times_used = TimesUsedPlusOne(call.shown, t)]
                                  ELSE t : t \in @}]
             /\ timesApplied' =
                   IF transportError THEN timesApplied
                   ELSE [timesApplied EXCEPT ![uid][call.templateId] = @ + 1]
             /\ toasts' = IF transportError THEN "Error" ELSE "Success"
             /\ templateCalls' = [templateCalls EXCEPT
                   ![s].useCalls = RemoveAt(@, i),
                   ![s].fetch = IF transportError \/ ~call.mounted THEN @ ELSE Fetch("sent", {})]
    /\ UNCHANGED <<actor, result, workoutVars, socialVars, profileVars, page, viewVars, formVars, templates>>

TemplatesInit ==
    /\ db = [EmptyDb EXCEPT
               !.profiles = {NewProfile(1, "u1"), NewProfile(2, "u2")},
               !.workout_templates = TemplateSeed]
    /\ actor = "u1"
    /\ result = Response("none", "none", "ok", {})
    /\ PagesInit("templates")

\* One step of the Templates page of session s.
TemplatesStep(s) ==
    \/ MountTemplates(s)
    \/ \E value \in TemplateFilters : setFilter(s, value)
    \/ fetchTemplatesAnswered(s)
    \/ fetchTemplates(s)
    \/ \E templateId \in {t.id : t \in db.workout_templates} : useTemplate(s, templateId)
    \/ \E i \in 1..MaxUses : useTemplateAnswered(s, i)

TemplatesNext ==
    \/ dismissToast
    \/ toasts = NoToast /\ \E s \in Sessions : TemplatesStep(s)

SpecTemplates == TemplatesInit /\ [][TemplatesNext]_vars

\* C10: once the useTemplate calls issued from the sessions of a template's
\* creator have all finished, the stored times_used is higher than it started
\* by the number of those calls that reported success.
C10_NoIncrementLost ==
    UsesInFlight = {} =>
        \A t \in db.workout_templates :
            \A seed \in {x \in TemplateSeed : x.id = t.id} :
                t.times_used = seed.times_used + Applied({t.creator_id}, t.id)

(***************************************************************************)
(* C11: likes and unlikes one after the other                              *)
(***************************************************************************)
\* likes_count values a share may be stored with: the column's default, or
\* what its owner wrote.
LikesCountSeeds == {0, 2}

\* The feed of every session loaded (both fetches finished), the share liked
\* by nobody.
LikeTripsInit ==
    /\ \E n \in LikesCountSeeds :
          db = [EmptyDb EXCEPT
                  !.profiles = {NewProfile(1, "u1"), NewProfile(2, "u2")},
                  !.workouts = {[id |-> 1, user_id |-> "u1", name |-> "Leg",
                                 duration_minutes |-> 0]},
                  !.workout_shares = {[id |-> 1, workout_id |-> 1, user_id |-> "u1",
                                       likes_count |-> n]}]
    /\ actor = "u1"
    /\ result = Response("none", "none", "ok", {})
    /\ sharedWorkouts =
          [s \in Sessions |->
              IF s \in SocialSessions
                 THEN enrichedShares(SharesWithWorkouts(SessionUser(s), db),
                                     ProfilesIn(SessionUser(s), Users, db))
                 ELSE {}]
    /\ likedWorkouts = [s \in Sessions |-> {}]
    /\ socialCalls = [s \in Sessions |-> NoSocialCalls]
    /\ page = "social"
    /\ toasts = NoToast
    /\ WorkoutPageInit
    /\ TemplatesPageInit
    /\ ProfilePageInit
    /\ ViewsInit
    /\ FormsInit

\* The user clicks the heart only when the previous call has finished.
LikeTripsNext ==
    \/ dismissToast
    \/ /\ toasts = NoToast
       /\ \E s \in SocialSessions :
             \/ \E shareId \in {share.id : share \in db.workout_shares} :
                   socialCalls[s].likeCalls = <<>> /\ handleLike(s, shareId)
             \/ \E i \in 1..MaxLikeCalls : handleLikeAnswered(s, i)

SpecLikeTrips == LikeTripsInit /\ [][LikeTripsNext]_vars

Even(n) == n % 2 = 0

\* C11: between calls, a session whose user has liked and unliked a share k
\* times (2k accepted calls) shows the likes_count the share had before the
\* first like and does not hold the share as liked, the user has no
\* workout_like row for it, and the stored likes_count is the one it started
\* with; after a like more, the share is liked and shows one more.
C11_LikeUnlikeRoundTrip ==
    \A s \in SocialSessions :
        socialCalls[s].likeCalls = <<>> =>
            \A shown \in sharedWorkouts[s] :
                \E share \in db.workout_shares :
                    /\ share.id = shown.id
                    /\ share.likes_count \in LikesCountSeeds
                    /\ (shown.id \in likedWorkouts[s]) = ~Even(socialCalls[s].succeeded)
                    /\ (shown.id \in likedWorkouts[s]) =
                          (\E like \in LikesOf(share.id, db) : like.user_id = SessionUser(s))
                    /\ shown.likes_count =
                          share.likes_count + (IF shown.id \in likedWorkouts[s] THEN 1 ELSE 0)

\* Two likes and two unlikes of the share have been accepted for a session, and
\* the share was stored with a count other than 0.
C11_Witness ==
    \E s \in SocialSessions :
        /\ socialCalls[s].succeeded = 4
        /\ socialCalls[s].likeCalls = <<>>
        /\ \E shown \in sharedWorkouts[s] : shown.likes_count = 2 /\ shown.id \notin likedWorkouts[s]

(***************************************************************************)
(* C12: the validation schemas of lib/validations.ts                       *)
(***************************************************************************)
\* A zod issue: the field it is about and the message of the check that failed.
Issue(path, message) == [path |-> path, message |-> message]

IssueIf(failed, path, message) == IF failed THEN {Issue(path, message)} ELSE {}

\* A field declared .optional() is checked only when the object has it (an
\* absent key is undefined).
Has(w, field) == field \in DOMAIN w

\* The schema as its messages word it ("must be less than"): the limit
\* itself refused.
workoutSchemaIssuesBelowLimit(w) ==
    IssueIf(Len(Trim(w.name)) < 1, "name", "Workout name is required")
    \cup IssueIf(Len(Trim(w.name)) >= 100,
                 "name", "Workout name must be less than 100 characters")
    \cup IssueIf(Has(w, "notes") /\ Len(w.notes) >= 500,
                 "notes", "Notes must be less than 500 characters")
    \cup IssueIf(Has(w, "duration_minutes") /\ w.duration_minutes < 1,
                 "duration_minutes", "Duration must be at least 1 minute")
    \cup IssueIf(Has(w, "duration_minutes") /\ w.duration_minutes >= 600,
                 "duration_minutes", "Duration must be less than 600 minutes")

\* The issues workoutSchema finds in w.
workoutSchemaIssues(w) ==
    IssueIf(Len(Trim(w.name)) < 1, "name", "Workout name is required")
    \cup IssueIf(Len(Trim(w.name)) > 100,
                 "name", "Workout name must be less than 100 characters")
    \cup IssueIf(Has(w, "notes") /\ Len(w.notes) > 500,
                 "notes", "Notes must be less than 500 characters")
    \cup IssueIf(Has(w, "duration_minutes") /\ w.duration_minutes < 1,
                 "duration_minutes", "Duration must be at least 1 minute")
    \cup IssueIf(Has(w, "duration_minutes") /\ w.duration_minutes > 600,
                 "duration_minutes", "Duration must be less than 600 minutes")

\* workoutSchema.safeParse(w).success
workoutSchema(w) == workoutSchemaIssues(w) = {}

\* C12: every workout row saveWorkout has stored or is sending passes
\* workoutSchema.
C12_WorkoutsPassWorkoutSchema ==
    /\ \A w \in db.workouts : workoutSchema(w)
    /\ save.pc = "workout" => workoutSchema(save.request)

(***************************************************************************)
(* Profile page: the profile of PageUser, displayed and edited             *)
(***************************************************************************)
\* An absent value (NULL, undefined) is <<>>, a present one <<value>>.
ProfileSeed ==
    [id |-> 1, user_id |-> PageUser, username |-> PageUser, total_points |-> 0,
     weight |-> <<>>]

\* What the user types into the weight input.
ProfileWeightTyped == {"", "70", "1000"}

\* parseFloat(e.target.value) || 0 on the strings the model types.
ParseFloatOrZero(str) ==
    CASE str = "70" -> 70
      [] str = "1000" -> 1000
      [] OTHER -> 0

\* weight DECIMAL(5,2): three digits before the point, else the store
\* answers "numeric field overflow".
ProfileColumnsOk(r) == r.weight = <<>> \/ r.weight[1] < 1000

\* { ...a, ...b }
Spread(a, b) == [k \in DOMAIN a \cup DOMAIN b |-> IF k \in DOMAIN b THEN b[k] ELSE a[k]]

\* useEffect(() => { fetchProfile(); ... }, [user]) of a page opened or opened
\* again; a handleSaveProfile call of the instance left behind still runs.
MountProfile ==
    /\ profileCalls.fetch.pc = "none"
    /\ profile' = NoProfile
    /\ editedProfile' = NoProfile
    /\ isEditing' = FALSE
    /\ saving' = FALSE
    /\ profileCalls' = [fetch |-> Fetch("sent", {}),
                        save |-> [i \in DOMAIN profileCalls.save |->
                                    [profileCalls.save[i] EXCEPT !.mounted = FALSE]]]
    /\ UNCHANGED <<storeVars, workoutVars, socialVars, templateVars, appVars>>

\* fetchProfile from the store's answer to its end: .single() answers an error
\* unless exactly one row matches.
fetchProfile ==
    /\ profileCalls.fetch.pc = "sent"
    /\ \E transportError \in BOOLEAN :
          LET data == {r \in SelectRows("profiles", PageUser, db) : r.user_id = PageUser}
              error == transportError \/ Cardinality(data) # 1
          IN  IF error
                 THEN UNCHANGED <<profile, editedProfile>>
                 ELSE /\ profile' = CHOOSE r \in data : TRUE
                      /\ editedProfile' = CHOOSE r \in data : TRUE
    /\ profileCalls' = [profileCalls EXCEPT !.fetch = Fetch("none", {})]
    /\ UNCHANGED <<storeVars, workoutVars, socialVars, templateVars, isEditing, saving, appVars>>

\* onClick={() => setIsEditing(!isEditing)} of the Edit button.
setIsEditing ==
    /\ profileCalls.fetch.pc = "none"
    /\ isEditing' = ~isEditing
    /\ UNCHANGED <<storeVars, workoutVars, socialVars, templateVars, profile, editedProfile,
                   saving, profileCalls, appVars>>

\* onChange of the weight input, enabled while editing.
setEditedProfile(typed) ==
    /\ isEditing
    /\ editedProfile' = Spread(editedProfile, [weight |-> <<ParseFloatOrZero(typed)>>])
    /\ editedProfile' # editedProfile
    /\ UNCHANGED <<storeVars, workoutVars, socialVars, templateVars, profile, isEditing,
                   saving, profileCalls, appVars>>

\* handleSaveProfile up to its await: Save Changes is rendered while editing
\* and disabled while saving; without a profile the handler returns at once.
handleSaveProfile ==
    /\ isEditing
    /\ ~saving
    /\ profileCalls.save = <<>>
    /\ profile # NoProfile
    /\ saving' = TRUE
    /\ profileCalls' = [profileCalls EXCEPT !.save =
          <<[profile |-> profile, editedProfile |-> editedProfile, mounted |-> TRUE]>>]
    /\ UNCHANGED <<storeVars, workoutVars, socialVars, templateVars, profile, editedProfile,
                   isEditing, appVars>>

\* catch { toast "Failed to update profile" } finally { setSaving(false) }
\* (SaveProfileFailedStillSaving: the same catch without the finally.)
SaveProfileFailedStillSaving(call) ==
    /\ toasts' = "Failed to update profile"
    /\ result' = WriteResponse("update", "error")
    /\ UNCHANGED <<db, profile, isEditing, saving>>
SaveProfileFailed(call) ==
    /\ toasts' = "Failed to update profile"
    /\ result' = WriteResponse("update", "error")
    /\ saving' = IF call.mounted THEN FALSE ELSE saving
    /\ UNCHANGED <<db, profile, isEditing>>

\* handleSaveProfile from the store's answer to its end:
\* update(editedProfile).eq('user_id', user.id).
handleSaveProfileAnswered ==
    /\ profileCalls.save # <<>>
    /\ LET call == profileCalls.save[1]
           targets == {r \in db.profiles :
                          /\ r.user_id = PageUser
                          /\ SelectUsing("profiles", PageUser, r, db)
                          /\ UpdateUsing("profiles", PageUser, r, db)}
       IN  \E transportError \in BOOLEAN :
             LET error ==
                     \/ transportError
                     \/ \E r \in targets :
                           \/ ~ProfileColumnsOk(Spread(r, call.editedProfile))
                           \/ ~UpdateAllowed("profiles", PageUser, r,
                                              Spread(r, call.editedProfile), db)
             IN  IF error
                    THEN SaveProfileFailed(call)
                    ELSE /\ db' = [db EXCEPT !.profiles =
                                     {IF r \in targets THEN Spread(r, call.editedProfile)
                                      ELSE r : r \in @}]
                         /\ toasts' = "Profile updated"
                         /\ result' = WriteResponse("update", "ok")
                         /\ IF call.mounted
                               THEN /\ profile' = Spread(call.profile, call.editedProfile)
                                    /\ isEditing' = FALSE
                                    /\ saving' = FALSE
                               ELSE UNCHANGED <<profile, isEditing, saving>>
    /\ profileCalls' = [profileCalls EXCEPT !.save = <<>>]
    /\ UNCHANGED <<actor, workoutVars, socialVars, templateVars, editedProfile, page, viewVars, formVars>>

\* One step of the Profile page.
ProfileStep ==
    \/ MountProfile
    \/ fetchProfile
    \/ setIsEditing
    \/ \E typed \in ProfileWeightTyped : setEditedProfile(typed)
    \/ handleSaveProfile
    \/ handleSaveProfileAnswered

\* The four pages that write, one of them open in one browser session of
\* PageUser; the store holds what that page starts from.
Pages == {"workout", "social", "templates", "profile"}
PagesSession == "s1"

OnePageInit(p) ==
    /\ db = [EmptyDb EXCEPT
               !.profiles = {ProfileSeed},
               !.workouts = IF p = "social"
                               THEN {[id |-> 1, user_id |-> "u1", name |-> "Leg",
                                      duration_minutes |-> 0]}
                               ELSE {},
               !.workout_shares = IF p = "social"
                                     THEN {[id |-> 1, workout_id |-> 1, user_id |-> "u1",
                                            likes_count |-> 0]}
                                     ELSE {},
               !.workout_templates = IF p = "templates" THEN TemplateSeed ELSE {}]
    /\ actor = PageUser
    /\ result = Response("none", "none", "ok", {})
    /\ PagesInit(p)

PagesNext ==
    \/ dismissToast
    \/ /\ toasts = NoToast
       /\ \/ page = "workout" /\ WorkoutStep
          \/ page = "social" /\ SocialStep(PagesSession)
          \/ page = "templates" /\ TemplatesStep(PagesSession)
          \/ page = "profile" /\ ProfileStep

SpecPages == (\E p \in Pages : OnePageInit(p)) /\ [][PagesNext]_vars

(***************************************************************************)
(* C13: a write the store rejects                                          *)
(***************************************************************************)
\* The step in which saveWorkout ends after the store refused one of its two
\* inserts: the rows it sent are not stored.
SaveWorkoutRejected ==
    \/ save.pc = "workout" /\ save'.pc # save.pc /\ db'.workouts = db.workouts
    \/ /\ save.pc = "exercises" /\ save'.pc # save.pc /\ save.payload # <<>>
       /\ db'.workout_exercises = db.workout_exercises

\* The step in which a handleLike call of session s ends and the store has
\* not accepted its statement.
LikeRejected(s) ==
    /\ Len(socialCalls'[s].likeCalls) < Len(socialCalls[s].likeCalls)
    /\ socialCalls'[s].succeeded = socialCalls[s].succeeded

UseTemplateRejected(s) ==
    /\ Len(templateCalls'[s].useCalls) < Len(templateCalls[s].useCalls)
    /\ timesApplied' = timesApplied

SaveProfileRejected ==
    /\ profileCalls.save # <<>>
    /\ profileCalls'.save = <<>>
    /\ result'.status = "error"

ErrorToasts == {"Failed to save workout", "Error", "Failed to update profile"}

\* No handler that sets a busy flag is running.
HandlersIdle == save = NoSave /\ profileCalls.save = <<>>

\* C13: whenever the store rejects the write of saveWorkout, handleLike,
\* handleSaveProfile or useTemplate, the handler ends in that step with its
\* error notification shown and the page's state as it was (form, liked set
\* and displayed shares, displayed templates, profile, edited profile and edit
\* mode), the store unchanged by it, and its busy flag false; and no busy
\* flag is true while no such handler runs.
C13_RejectedWriteStep ==
    /\ SaveWorkoutRejected =>
          /\ toasts' = "Failed to save workout"
          /\ UNCHANGED <<db, workoutName, workoutExercises>>
          /\ isLoading' = FALSE
          /\ save' = NoSave
    /\ LikeRejected(PagesSession) =>
          /\ toasts' = "Error"
          /\ UNCHANGED <<db, likedWorkouts, sharedWorkouts>>
    /\ UseTemplateRejected(PagesSession) =>
          /\ toasts' = "Error"
          /\ UNCHANGED <<db, templates>>
          /\ templateCalls'[PagesSession].fetch = templateCalls[PagesSession].fetch
    /\ SaveProfileRejected =>
          /\ toasts' = "Failed to update profile"
          /\ UNCHANGED <<db, profile, editedProfile, isEditing>>
          /\ saving' = FALSE

C13_RejectedWriteCaught ==
    /\ [][C13_RejectedWriteStep]_vars
    /\ [](HandlersIdle => isLoading = FALSE /\ saving = FALSE)

\* handleSaveProfile has sent a weight the column cannot hold, and has ended.
C13_Witness ==
    /\ page = "profile"
    /\ toasts = "Failed to update profile"
    /\ result.status = "error"
    /\ editedProfile # NoProfile
    /\ editedProfile.weight = <<1000>>
    /\ profile.weight = <<>>
    /\ isEditing
    /\ ~saving
    /\ profileCalls.save = <<>>

(***************************************************************************)
(* C14: accounts and their profiles                                        *)
(***************************************************************************)
\* handle_new_user(): the profiles row of the new account (full_name is
\* not modelled).
handle_new_user(new) ==
    [user_id |-> new.id,
     username |-> IF new.raw_user_meta_data # <<>>
                     THEN new.raw_user_meta_data[1]
                     ELSE DefaultUsername(new.id),
     total_points |-> 0]

\* INSERT INTO auth.users and its trigger on_auth_user_created, which runs as
\* the function's owner (SECURITY DEFINER): an error of the trigger's insert
\* fails the whole statement.
signUp(id, meta) ==
    /\ \A a \in db.auth_users : a.id # id
    /\ LET new == [id |-> id, raw_user_meta_data |-> meta]
           row == WithId(handle_new_user(new), FreshId(db.profiles))
       IN  IF UniqueOk("profiles", row, db.profiles)
              THEN /\ db' = [db EXCEPT !.auth_users = @ \cup {new},
                                       !.profiles = @ \cup {row}]
                   /\ result' = WriteResponse("signup", "ok")
              ELSE /\ db' = db
                   /\ result' = WriteResponse("signup", "error")
    /\ actor' = id
    /\ UNCHANGED otherVars

AccountsInit ==
    /\ db = [EmptyDb EXCEPT !.auth_users = {}]
    /\ actor = "u1"
    /\ result = Response("none", "none", "ok", {})
    /\ PagesInit("")

\* Signups, and every statement on profiles a signed-in user can issue.
AccountsNext ==
    \/ \E id \in Users, meta \in {<<>>} \cup {<<n>> : n \in Usernames} : signUp(id, meta)
    \/ \E u \in {a.id : a \in db.auth_users} :
          \/ StoreSelect(u, "profiles")
          \/ StoreInsert(u, "profiles", MaxSocialRows)
          \/ StoreUpdate(u, "profiles")
          \/ StoreDelete(u, "profiles")

SpecAccounts == AccountsInit /\ [][AccountsNext]_vars

ProfilesOf(id, d) == {p \in d.profiles : p.user_id = id}

OneProfilePerAccount ==
    /\ \A a \in db.auth_users : Cardinality(ProfilesOf(a.id, db)) = 1
    /\ \A p \in db.profiles : \E a \in db.auth_users : a.id = p.user_id
    /\ \A p, q \in db.profiles : p.username = q.username => p = q

ProfileStepKept ==
    /\ \A a \in db'.auth_users \ db.auth_users :
          \A p \in ProfilesOf(a.id, db') :
              p.username = IF a.raw_user_meta_data # <<>>
                              THEN a.raw_user_meta_data[1]
                              ELSE DefaultUsername(a.id)
    /\ \A p \in db.profiles :
          \E q \in db'.profiles : q.id = p.id /\ q.user_id = p.user_id

\* C14: every account has exactly one profile and every profile an account,
\* no two profiles share a username; the profile of a new account carries the
\* username given at signup, or 'user_' plus the start of the account id; no
\* step removes a profile or gives it to another account.
C14_OneProfilePerAccount ==
    /\ [](OneProfilePerAccount)
    /\ [][ProfileStepKept]_vars

\* Both accounts exist: u1 signed up as ann and has since renamed itself to
\* user_u1, u2 signed up without a username.
C14_Witness ==
    /\ Cardinality(db.auth_users) = 2
    /\ \E p \in ProfilesOf("u1", db), q \in ProfilesOf("u2", db) :
          /\ p.username = "user_u1"
          /\ q.username = "user_u2"
          /\ [id |-> "u1", raw_user_meta_data |-> <<"ann">>] \in db.auth_users
          /\ [id |-> "u2", raw_user_meta_data |-> <<>>] \in db.auth_users

(***************************************************************************)
(* C15: one row per key                                                    *)
(***************************************************************************)
KeyedTables == {"personal_bests", "user_achievements", "workout_likes", "group_members"}

\* The columns of the UNIQUE constraint of a keyed table.
Key(t, r) ==
    CASE t = "personal_bests" -> <<r.user_id, r.exercise_id>>
      [] t = "user_achievements" -> <<r.user_id, r.achievement_id>>
      [] t = "workout_likes" -> <<r.share_id, r.user_id>>
      [] t = "group_members" -> <<r.group_id, r.user_id>>

\* A shared workout of u1 and a coach group of u1, so that likes and members
\* have a parent row to refer to.
KeyedInit ==
    /\ db = [EmptyDb EXCEPT
               !.workouts = {[id |-> 1, user_id |-> "u1", name |-> "Leg",
                              duration_minutes |-> 0]},
               !.workout_shares = {[id |-> 1, workout_id |-> 1, user_id |-> "u1",
                                    likes_count |-> 0]},
               !.coach_groups = {[id |-> 1, coach_id |-> "u1", name |-> "Team"]}]
    /\ actor = "u1"
    /\ result = Response("none", "none", "ok", {})
    /\ PagesInit("")

KeyedNext ==
    \E u \in Users, t \in KeyedTables :
        \/ StoreInsert(u, t, MaxKeyedRows)
        \/ StoreUpdate(u, t)
        \/ StoreDelete(u, t)

SpecKeyed == KeyedInit /\ [][KeyedNext]_vars

OneRowPerKey ==
    \A t \in KeyedTables : \A r, o \in db[t] : Key(t, r) = Key(t, o) => r = o

\* Whoever sends it, a row whose key is already stored is refused.
SecondRowRefused ==
    \A t \in KeyedTables, u \in Users : \A r \in RowChoices(t, db) :
        (\E o \in db[t] : Key(t, o) = Key(t, r)) => ~InsertAllowed(t, u, r, db)

\* C15: personal_bests, user_achievements, workout_likes and group_members
\* never hold two rows with the same key; an insert of a row whose key is
\* already stored is refused, and a refused insert changes nothing.
C15_OneRowPerKey ==
    /\ [](OneRowPerKey /\ SecondRowRefused)
    /\ [][result'.kind = "insert" /\ result'.status = "error" => db' = db]_vars

\* An insert has just been refused while the caller's own row with that key
\* is stored, in each of the three tables a user can fill.
C15_Witness ==
    /\ result = WriteResponse("insert", "error")
    /\ \E r \in db.personal_bests : r.user_id = actor
    /\ \E r \in db.user_achievements : r.user_id = actor
    /\ \E r \in db.workout_likes : r.user_id = actor

(***************************************************************************)
(* C16: user_follows                                                       *)
(***************************************************************************)
\* Signups, and every statement on user_follows a signed-in user can issue.
FollowsNext ==
    \/ \E id \in Users : signUp(id, <<>>)
    \/ \E u \in {a.id : a \in db.auth_users} :
          \/ StoreSelect(u, "user_follows")
          \/ StoreInsert(u, "user_follows", MaxSocialRows + Cardinality(db.profiles))
          \/ StoreUpdate(u, "user_follows")
          \/ StoreDelete(u, "user_follows")

SpecFollows == AccountsInit /\ [][FollowsNext]_vars

FollowsWellFormed ==
    /\ \A r \in db.user_follows : r.follower_id # r.following_id
    /\ \A r, o \in db.user_follows :
          r.follower_id = o.follower_id /\ r.following_id = o.following_id => r = o

\* The rows a step adds or removes have the caller as their follower_id.
FollowsChangedByFollower ==
    \A r \in (db'.user_follows \ db.user_follows) \cup (db.user_follows \ db'.user_follows) :
        actor' = r.follower_id

\* C16: no user_follows row has a user following themselves, no two rows have
\* the same follower and followed user, and every step that adds or removes a
\* row is a statement of the row's follower.
C16_FollowsByFollowerOnly ==
    /\ [](FollowsWellFormed)
    /\ [][FollowsChangedByFollower]_vars

\* Each user follows the other, and an insert has just been refused.
C16_Witness ==
    /\ Cardinality(db.user_follows) = 2
    /\ result = WriteResponse("insert", "error")

(***************************************************************************)
(* C17: coach groups and their members                                     *)
(***************************************************************************)
GroupTables == {"coach_groups", "group_members"}

GroupsNext ==
    \E u \in Users, t \in GroupTables :
        \/ StoreSelect(u, t)
        \/ StoreInsert(u, t, MaxSocialRows)
        \/ StoreUpdate(u, t)
        \/ StoreDelete(u, t)

SpecGroups == StoreInit /\ [][GroupsNext]_vars

\* The coach of group g, or a member of it.
InGroup(u, g, d) ==
    u = g.coach_id \/ \E m \in d.group_members : m.group_id = g.id /\ m.user_id = u

\* C17: a select answers a coach_groups row, and each group_members row of
\* that group, to exactly the group's coach and its members.
C17_GroupsVisibleToCoachAndMembers ==
    \A u \in Users :
        /\ \A g \in db.coach_groups :
              g \in Read(u, "coach_groups", NoFilter, db).rows <=> InGroup(u, g, db)
        /\ \A m \in db.group_members :
              m \in Read(u, "group_members", NoFilter, db).rows
                  <=> \E g \in db.coach_groups : g.id = m.group_id /\ InGroup(u, g, db)

(***************************************************************************)
(* Leaderboard page: profiles ranked by total_points                       *)
(***************************************************************************)
LeaderboardUsers == Users \cup {"u3"}
LeaderboardPoints == {0, 100, 250}

\* .limit(50)
LeaderboardLimit == 50

\* The profiles of any of the three users, each with any of the points.
LeaderboardInit ==
    /\ \E U \in SUBSET LeaderboardUsers, points \in [LeaderboardUsers -> LeaderboardPoints] :
          db = [EmptyDb EXCEPT
                  !.auth_users = Accounts(LeaderboardUsers),
                  !.profiles = {[NewProfile(IF u = "u1" THEN 1 ELSE IF u = "u2" THEN 2 ELSE 3, u)
                                    EXCEPT !.total_points = points[u]] : u \in U}]
    /\ actor = PageUser
    /\ result = Response("none", "none", "ok", {})
    /\ PagesInit("leaderboard")

\* .order('total_points', { ascending: false }).limit(50): the rows in any
\* order in which the points never increase (rows with equal points come in
\* whatever order the store reads them), cut after the limit.
OrderedByPoints(rows) ==
    {SubSeq(users, 1, IF Len(users) < LeaderboardLimit THEN Len(users) ELSE LeaderboardLimit) :
        users \in {f \in [1..Cardinality(rows) -> rows] :
                      /\ \A i, j \in DOMAIN f : i # j => f[i] # f[j]
                      /\ \A i, j \in DOMAIN f :
                            i < j => f[i].total_points >= f[j].total_points}}

\* usersWithWorkouts.findIndex(u => u.user_id === user.id), then
\* userIndex >= 0 ? userIndex + 1 : null
UserRankIn(users, uid) ==
    IF \E i \in DOMAIN users : users[i].user_id = uid
        THEN <<CHOOSE i \in DOMAIN users :
                  /\ users[i].user_id = uid
                  /\ \A j \in DOMAIN users : users[j].user_id = uid => i <= j>>
        ELSE <<>>

\* fetchLeaderboardData as a whole, the store answering without an error (on
\* an error the page keeps what it shows).
fetchLeaderboardData ==
    /\ \E users \in OrderedByPoints(SelectRows("profiles", PageUser, db)) :
          LET usersWithWorkouts ==
                  [i \in DOMAIN users |->
                      [id |-> users[i].id, user_id |-> users[i].user_id,
                       username |-> users[i].username,
                       total_points |-> users[i].total_points,
                       totalWorkouts |->
                           Read(PageUser, "workouts",
                                [col |-> "user_id", val |-> users[i].user_id], db).count]]
          IN  /\ topUsers' = usersWithWorkouts
              /\ userRank' = UserRankIn(usersWithWorkouts, PageUser)
    /\ UNCHANGED <<storeVars, workoutVars, otherPages, page, toasts, dashboardProfile,
                   analyticsData, formVars>>

SpecLeaderboard == LeaderboardInit /\ [][fetchLeaderboardData]_vars

\* const rank = index + 1 of the points tab: the position in topUsers.
Rank(i) == i

\* C18: on a loaded leaderboard the profile with more points than every
\* other has rank 1, and every profile with the fewest points has rank N.
C18_HighestFirstLastN ==
    \A i \in DOMAIN topUsers :
        /\ (\A j \in DOMAIN topUsers \ {i} :
                topUsers[j].total_points < topUsers[i].total_points) => Rank(i) = 1
        /\ (\A j \in DOMAIN topUsers :
                topUsers[i].total_points <= topUsers[j].total_points)
              => Rank(i) = Len(topUsers)

(***************************************************************************)
(* Dashboard page: the level progress                                      *)
(***************************************************************************)
\* The largest total_points the model stores.
MaxPoints == 1500

\* The XP of one level.
LevelSize == 1000

\* No profile, or the profile of PageUser with any points up to MaxPoints.
DashboardInit ==
    /\ \/ db = EmptyDb
       \/ \E points \in 0..MaxPoints :
             db = [EmptyDb EXCEPT !.profiles =
                      {[NewProfile(1, PageUser) EXCEPT !.total_points = points]}]
    /\ actor = PageUser
    /\ result = Response("none", "none", "ok", {})
    /\ PagesInit("dashboard")

\* Dashboard.fetchProfile: .single() answers an error unless exactly one row
\* matches, and then the page keeps what it shows.
fetchDashboardProfile ==
    /\ LET data == {r \in SelectRows("profiles", PageUser, db) : r.user_id = PageUser}
       IN  /\ Cardinality(data) = 1
           /\ dashboardProfile' =
                 LET r == CHOOSE r \in data : TRUE
                 IN  [username |-> r.username, total_points |-> r.total_points]
    /\ UNCHANGED <<storeVars, workoutVars, otherPages, page, toasts, topUsers, userRank,
                   analyticsData, formVars>>

SpecDashboard == DashboardInit /\ [][fetchDashboardProfile]_vars

\* profile?.total_points || 0
PointsOrZero(shown) == IF shown = <<>> THEN 0 ELSE shown.total_points

\* width: Math.min(((profile?.total_points || 0) % 1000) / 10, 100) percent,
\* in tenths of a percent.
BarWidthTenths(shown) ==
    LET width == PointsOrZero(shown) % LevelSize
    IN  IF width < 100 * 10 THEN width ELSE 100 * 10

\* The same text computed without the remainder, for comparison.
XpToNextLevelOfTotal(shown) == LevelSize - PointsOrZero(shown)

\* {1000 - ((profile?.total_points || 0) % 1000)} XP to next level
XpToNextLevel(shown) == LevelSize - (PointsOrZero(shown) % LevelSize)

\* C19: with p the stored points of the profile the dashboard has loaded (0
\* while it has none), the bar is p mod 1000 tenths of a percent wide, so at
\* most 100 percent, the text says 1000 - (p mod 1000) XP remain, a number in
\* 1..1000, and the two sum to 1000; for 1450 points they are 450 and 550.
C19_LevelProgress ==
    LET p == IF dashboardProfile = <<>> THEN 0
             ELSE (CHOOSE r \in db.profiles : r.user_id = PageUser).total_points
    IN  /\ BarWidthTenths(dashboardProfile) = p % 1000
        /\ BarWidthTenths(dashboardProfile) <= 1000
        /\ XpToNextLevel(dashboardProfile) = 1000 - (p % 1000)
        /\ XpToNextLevel(dashboardProfile) \in 1..1000
        /\ BarWidthTenths(dashboardProfile) + XpToNextLevel(dashboardProfile) = 1000
        /\ p = 1450 => /\ BarWidthTenths(dashboardProfile) = 450
                       /\ XpToNextLevel(dashboardProfile) = 550

\* The dashboard has loaded a profile with 1450 points.
C19_Witness ==
    /\ dashboardProfile # <<>>
    /\ dashboardProfile.total_points = 1450

(***************************************************************************)
(* Analytics page: the average workout time                                *)
(***************************************************************************)
\* The most workouts the model stores for the Analytics page.
MaxAnalyticsWorkouts == 3

\* duration_minutes of a stored workout: a number, or NULL (the row then has
\* no such field).
Durations == {0, 20, 45}
WorkoutRows(i) ==
    [id : {i}, user_id : Users, name : {"Leg"}, duration_minutes : Durations]
        \cup [id : {i}, user_id : Users, name : {"Leg"}]

\* Any workouts of the two users, with or without a duration.
AnalyticsInit ==
    /\ \E n \in 0..MaxAnalyticsWorkouts :
          \E rows \in [1..n -> UNION {WorkoutRows(i) : i \in 1..n}] :
              /\ \A i \in 1..n : rows[i].id = i
              /\ db = [EmptyDb EXCEPT !.workouts = {rows[i] : i \in 1..n}]
    /\ actor = PageUser
    /\ result = Response("none", "none", "ok", {})
    /\ PagesInit("analytics")

\* .not('duration_minutes', 'is', null)
DurationNotNull(w) == "duration_minutes" \in DOMAIN w

\* workouts.reduce((sum, w) => sum + (w.duration_minutes || 0), 0)
RECURSIVE SumDurations(_)
SumDurations(rows) ==
    IF rows = {} THEN 0
    ELSE LET w == CHOOSE w \in rows : TRUE
         IN  (IF DurationNotNull(w) THEN w.duration_minutes ELSE 0)
                 + SumDurations(rows \ {w})

\* The quotient cut to an integer, for comparison.
MathTrunc(num, den) == num \div den

\* Math.round of the quotient num / den of two numbers that are not negative.
MathRound(num, den) == (2 * num + den) \div (2 * den)

\* fetchAnalyticsData from the answer to its last query to its end: a query
\* that fails answers no data, which the handler reads as no workouts.
fetchAnalyticsData ==
    /\ \E error \in BOOLEAN :
          LET totalWorkouts ==
                  Read(PageUser, "workouts", [col |-> "user_id", val |-> PageUser], db).count
              workouts ==
                  IF error THEN {}
                  ELSE {w \in SelectRows("workouts", PageUser, db) :
                           w.user_id = PageUser /\ DurationNotNull(w)}
              length == Cardinality(workouts)
          IN  /\ analyticsData' =
                    [totalWorkouts |-> totalWorkouts,
                     averageWorkoutTime |->
                         IF length > 0 THEN MathRound(SumDurations(workouts), length)
                         ELSE 0]
              /\ result' = Response("select", "workouts",
                                    IF error THEN "error" ELSE "ok", workouts)
    /\ UNCHANGED <<db, actor, workoutVars, otherPages, page, toasts, topUsers, userRank,
                   dashboardProfile, formVars>>

SpecAnalytics == AnalyticsInit /\ [][fetchAnalyticsData]_vars

\* The user's stored workouts that have a duration.
TimedWorkouts == {w \in db.workouts : w.user_id = PageUser /\ DurationNotNull(w)}

\* C20: once the store has answered fetchAnalyticsData, the average workout
\* time shown is an integer nearest to the mean duration of the user's stored
\* workouts that have one, and 0 when there is none.
C20_AverageIsRoundedMean ==
    result.kind = "select" /\ result.status = "ok" =>
        LET n == Cardinality(TimedWorkouts)
            shown == analyticsData.averageWorkoutTime
            twice == 2 * SumDurations(TimedWorkouts) - 2 * n * shown
        IN  IF n = 0 THEN shown = 0
            ELSE twice <= n /\ -twice <= n

\* Durations 20 and 45 and a workout without one: the mean 32.5 is shown as 33.
C20_Witness ==
    /\ result.kind = "select" /\ result.status = "ok"
    /\ Cardinality(TimedWorkouts) = 2
    /\ SumDurations(TimedWorkouts) = 65
    /\ \E w \in db.workouts : w.user_id = PageUser /\ ~DurationNotNull(w)
    /\ analyticsData.averageWorkoutTime = 33

(***************************************************************************)
(* The validation schemas applied to submissions (lib/validations.ts)      *)
(***************************************************************************)
\* n copies of the one-character string ch.
RECURSIVE Repeat(_, _)
Repeat(ch, n) ==
    IF n = 0 THEN ""
    ELSE LET half == Repeat(ch, n \div 2)
         IN  half \o half \o (IF n % 2 = 1 THEN ch ELSE "")

\* The characters /^[a-zA-Z0-9_]+$/ lets through: a-z and A-Z, 0-9, the
\* underscore.
Letters ==
    {"a", "b", "c", "d", "e", "f", "g", "h", "i", "j", "k", "l", "m",
     "n", "o", "p", "q", "r", "s", "t", "u", "v", "w", "x", "y", "z",
     "A", "B", "C", "D", "E", "F", "G", "H", "I", "J", "K", "L", "M",
     "N", "O", "P", "Q", "R", "S", "T", "U", "V", "W", "X", "Y", "Z"}
Digits == {"0", "1", "2", "3", "4", "5", "6", "7", "8", "9"}
WordCharacters == Letters \cup Digits \cup {"_"}

\* The pattern without its closing anchor, /^[a-zA-Z0-9_]+/: a match at the
\* start of the string is enough.
MatchesWordCharactersAtStart(str) ==
    /\ Len(str) >= 1
    /\ SubSeq(str, 1, 1) \in WordCharacters

\* /^[a-zA-Z0-9_]+$/.test(str)
MatchesWordCharacters(str) ==
    /\ Len(str) >= 1
    /\ \A i \in 1..Len(str) : SubSeq(str, i, i) \in WordCharacters

\* The issues profileSchema finds in p; the three checks of username all run on
\* the trimmed string.
profileSchemaIssues(p) ==
    IssueIf(Len(Trim(p.username)) < 3,
            "username", "Username must be at least 3 characters")
    \cup IssueIf(Len(Trim(p.username)) > 30,
                 "username", "Username must be less than 30 characters")
    \cup IssueIf(~MatchesWordCharacters(Trim(p.username)),
                 "username", "Username can only contain letters, numbers, and underscores")
    \cup IssueIf(Has(p, "full_name") /\ Len(Trim(p.full_name)) > 100,
                 "full_name", "Full name must be less than 100 characters")
    \cup IssueIf(Has(p, "age") /\ p.age < 13, "age", "Age must be at least 13")
    \cup IssueIf(Has(p, "age") /\ p.age > 120, "age", "Age must be less than 120")
    \cup IssueIf(Has(p, "fitness_goals") /\ Len(p.fitness_goals) > 500,
                 "fitness_goals", "Fitness goals must be less than 500 characters")

\* profileSchema.safeParse(p).success
profileSchema(p) == profileSchemaIssues(p) = {}

\* The submissions the model hands to the schemas: every field at, inside and
\* outside each limit, the optional fields present or absent.
NameInputs ==
    {"", " ", "a", " a ", Repeat("a", 100), Repeat("a", 101),
     " " \o Repeat("a", 100) \o " "}
NotesInputs == {Repeat("n", 500), Repeat("n", 501)}
DurationInputs == {0, 1, 600, 601}

\* An optional field of a submission: left out (<<>>), or given one of the values.
Optional(values) == {<<>>} \cup {<<v>> : v \in values}
Field(key, option) == IF option = <<>> THEN <<>> ELSE [k \in {key} |-> option[1]]

UsernameInputs ==
    {"", "jo", " jo ", "joe", "  joe  ", "john_doe99", "john doe!", "joe!", "___",
     "A_1", Repeat("a", 30), Repeat("a", 31), " " \o Repeat("a", 30), "a b"}
FullNameInputs == {Repeat("f", 100), Repeat("f", 101)}
AgeInputs == {12, 13, 120, 121}
\* schema.safeParse(value), kept with the value it was given.
schemaIssues(schema, value) ==
    CASE schema = "workoutSchema" -> workoutSchemaIssues(value)
      [] schema = "profileSchema" -> profileSchemaIssues(value)

safeParse(schema, value) ==
    /\ submission' = [schema |-> schema, value |-> value]
    /\ parsed' = LET issues == schemaIssues(schema, value)
                 IN  [success |-> issues = {}, issues |-> issues]
    /\ UNCHANGED <<storeVars, workoutVars, otherPages, page, toasts, viewVars, bodyVars>>

workoutSchemaSafeParse ==
    \E name \in NameInputs, notes \in Optional(NotesInputs),
       duration \in Optional(DurationInputs) :
        LET w == Spread([name |-> name],
                        Spread(Field("notes", notes), Field("duration_minutes", duration)))
        IN  safeParse("workoutSchema", w)

profileSchemaSafeParse ==
    \E username \in UsernameInputs, fullName \in Optional(FullNameInputs),
       age \in Optional(AgeInputs) :
        LET p == Spread([username |-> username],
                        Spread(Field("full_name", fullName), Field("age", age)))
        IN  safeParse("profileSchema", p)

SchemasNext == workoutSchemaSafeParse \/ profileSchemaSafeParse

SpecSchemas == StoreInit /\ [][SchemasNext]_vars

\* The fields of a submission for which the schema reported an issue.
IssuePaths == {i.path : i \in parsed.issues}

\* The workoutSchema limits as the claim words them.
NameWithinLimits(w) == Len(Trim(w.name)) \in 1..100
DurationWithinLimits(w) == Has(w, "duration_minutes") => w.duration_minutes \in 1..600
NotesWithinLimits(w) == Has(w, "notes") => Len(w.notes) <= 500

\* C21: workoutSchema accepts a submission exactly when its trimmed name has
\* 1 to 100 characters, its duration_minutes, if given, is within 1..600 and
\* its notes, if given, have at most 500 characters; a rejected submission
\* carries an issue for each field that is outside its limits, and for no
\* other field.
C21_WorkoutSchemaAcceptsWithinLimits ==
    (submission # NoSubmission /\ submission.schema = "workoutSchema") =>
        LET w == submission.value
        IN  /\ parsed.success <=>
                  (NameWithinLimits(w) /\ DurationWithinLimits(w) /\ NotesWithinLimits(w))
            /\ "name" \in IssuePaths <=> ~NameWithinLimits(w)
            /\ "duration_minutes" \in IssuePaths <=> ~DurationWithinLimits(w)
            /\ "notes" \in IssuePaths <=> ~NotesWithinLimits(w)
            /\ ~parsed.success => parsed.issues # {}

\* A name of 100 characters between two spaces, with a duration of 600, was
\* accepted.
C21_Witness ==
    /\ submission # NoSubmission
    /\ submission.schema = "workoutSchema"
    /\ parsed.success
    /\ Len(submission.value.name) = 102
    /\ Has(submission.value, "duration_minutes")
    /\ submission.value.duration_minutes = 600

\* C22: profileSchema accepts a username exactly when, trimmed, it has 3 to
\* 30 characters and every one of them is a letter, a digit or an
\* underscore: a submission whose username is so passes unless another field
\* fails, any other username is refused on the username field; "john_doe99"
\* passes, "jo" is too short and "john doe!" has characters that are not
\* allowed.
C22_UsernameAcceptedWhenWellFormed ==
    (submission # NoSubmission /\ submission.schema = "profileSchema") =>
        LET username == Trim(submission.value.username)
            wellFormed ==
                /\ Len(username) \in 3..30
                /\ \A i \in 1..Len(username) :
                      \/ SubSeq(username, i, i) \in Letters
                      \/ SubSeq(username, i, i) \in Digits
                      \/ SubSeq(username, i, i) = "_"
        IN  /\ "username" \notin IssuePaths <=> wellFormed
            /\ parsed.success <=> IssuePaths = {}
            /\ submission.value.username = "john_doe99" => "username" \notin IssuePaths
            /\ submission.value.username = "jo" =>
                  Issue("username", "Username must be at least 3 characters")
                      \in parsed.issues
            /\ submission.value.username = "john doe!" =>
                  {i \in parsed.issues : i.path = "username"} =
                      {Issue("username",
                             "Username can only contain letters, numbers, and underscores")}

\* "john doe!" was refused, on its characters.
C22_Witness ==
    /\ submission # NoSubmission
    /\ submission.schema = "profileSchema"
    /\ submission.value.username = "john doe!"
    /\ ~parsed.success

(***************************************************************************)
(* C23: what a successful useTemplate leaves in the store                  *)
(***************************************************************************)
\* The templates of d with the times_used of template t one higher.
WithOneMoreUse(d, t) ==
    (d.workout_templates \ {t}) \cup {[t EXCEPT !.times_used = @ + 1]}

\* C23: every useTemplate call that reports success (the step that shows the
\* "Success" toast) leaves the stored times_used of the template it was
\* called for exactly one higher, whoever created it, and every other
\* template as it was.
C23_SuccessIncrementsByOne ==
    [][toasts' = "Success" =>
          \E u \in Users : \E t \in db.workout_templates :
              /\ timesApplied'[u][t.id] = timesApplied[u][t.id] + 1
              /\ db'.workout_templates = WithOneMoreUse(db, t)]_vars

(***************************************************************************)
(* C24: likes that overlap, in one session and across two of the same user *)
(***************************************************************************)
\* The calls of one session that may be in flight together.
MaxOverlappingLikes == 2

\* Two devices of u1 show the feed.
LikeRaceSessions == {"s1", "s2"}

\* Both feeds loaded (every fetch finished), the share liked by nobody.
LikeRacesInit ==
    /\ db = [EmptyDb EXCEPT
               !.profiles = {NewProfile(1, "u1"), NewProfile(2, "u2")},
               !.workouts = {[id |-> 1, user_id |-> "u1", name |-> "Leg",
                              duration_minutes |-> 0]},
               !.workout_shares = {[id |-> 1, workout_id |-> 1, user_id |-> "u1",
                                    likes_count |-> 0]}]
    /\ actor = "u1"
    /\ result = Response("none", "none", "ok", {})
    /\ sharedWorkouts =
          [s \in Sessions |->
              IF s \in LikeRaceSessions
                 THEN enrichedShares(SharesWithWorkouts(SessionUser(s), db),
                                     ProfilesIn(SessionUser(s), Users, db))
                 ELSE {}]
    /\ likedWorkouts = [s \in Sessions |-> {}]
    /\ socialCalls = [s \in Sessions |-> NoSocialCalls]
    /\ page = "social"
    /\ toasts = NoToast
    /\ WorkoutPageInit
    /\ TemplatesPageInit
    /\ ProfilePageInit
    /\ ViewsInit
    /\ FormsInit

LikeRacesNext ==
    \/ dismissToast
    \/ /\ toasts = NoToast
       /\ \E s \in LikeRaceSessions :
             \/ \E shareId \in {share.id : share \in db.workout_shares} :
                   handleLikeWhile(s, shareId, MaxOverlappingLikes)
             \/ \E i \in 1..MaxOverlappingLikes : handleLikeAnswered(s, i)

SpecLikeRaces == LikeRacesInit /\ [][LikeRacesNext]_vars

\* C24: in every session, a step changes the likes_count displayed only when
\* it inserts or deletes a workout_like row, and when the last call in
\* flight of the session finishes, each share displayed is held as liked
\* exactly when the user's workout_like row for it is stored.
C24_LikedIffRowStored ==
    [][\A s \in LikeRaceSessions :
          /\ sharedWorkouts'[s] # sharedWorkouts[s] => db'.workout_likes # db.workout_likes
          /\ (socialCalls[s].likeCalls # <<>> /\ socialCalls'[s].likeCalls = <<>>) =>
                \A shown \in sharedWorkouts'[s] :
                    (shown.id \in likedWorkouts'[s]) =
                        (\E like \in LikesOf(shown.id, db') :
                            like.user_id = SessionUser(s))]_vars

(***************************************************************************)
(* C25: the two inserts of saveWorkout taken together                      *)
(***************************************************************************)
ExercisesOf(w, d) == {r \in d.workout_exercises : r.workout_id = w.id}

\* C25: whenever no saveWorkout call is running, every stored workout has at
\* least one workout_exercises row that references it: a call that has
\* returned has persisted both or nothing.
C25_NoWorkoutWithoutExercises ==
    save = NoSave => \A w \in db.workouts : ExercisesOf(w, db) # {}

(***************************************************************************)
(* C26: the profile saved while somebody else writes to it                 *)
(***************************************************************************)
\* What another writer stores in the columns the page does not edit: points
\* earned, a username changed on another device of the user.
PointsWritten == {0, 100}
UsernamesWritten == {PageUser, "ann"}

\* update({ total_points, username }).eq('user_id', user.id) sent by another
\* session of PageUser, under the policies of profiles.
otherProfileWriter ==
    /\ \E points \in PointsWritten, username \in UsernamesWritten :
          \E old \in db.profiles :
             LET new == [old EXCEPT !.total_points = points, !.username = username]
             IN  /\ old.user_id = PageUser
                 /\ new # old
                 /\ old \in UpdateTargets("profiles", PageUser, old.id, db)
                 /\ UpdateAllowed("profiles", PageUser, old, new, db)
                 /\ db' = [db EXCEPT !.profiles = (@ \ {old}) \cup {new}]
    /\ actor' = PageUser
    /\ result' = WriteResponse("update", "ok")
    /\ UNCHANGED otherVars

ProfileWritersNext ==
    \/ dismissToast
    \/ toasts = NoToast /\ ProfileStep
    \/ toasts = NoToast /\ otherProfileWriter

SpecProfileWriters == OnePageInit("profile") /\ [][ProfileWritersNext]_vars

\* C26: the step of handleSaveProfile that stores the edits ("Profile
\* updated") leaves total_points and username of every stored profile as
\* they were stored just before it.
C26_SaveKeepsUneditedColumns ==
    [][toasts' = "Profile updated" =>
          \A old \in db.profiles :
              \E new \in db'.profiles :
                  /\ new.id = old.id
                  /\ new.total_points = old.total_points
                  /\ new.username = old.username]_vars

(***************************************************************************)
(* C27: the workout joined to each share of the feed                       *)
(***************************************************************************)
\* C27: every share a session displays carries its joined workout (name,
\* duration_minutes), whoever owns the share: filteredWorkouts and the cards
\* read workout.workouts.name of each.
C27_JoinedWorkoutAvailable ==
    \A s \in SocialSessions :
        \A workout \in sharedWorkouts[s] : workout.workouts # Null

(***************************************************************************)
(* C28: the workout counts of the leaderboard                              *)
(***************************************************************************)
\* The most workouts a user has stored when the leaderboard opens.
MaxLeaderboardWorkouts == 2

UserNumber(u) == IF u = "u1" THEN 1 ELSE IF u = "u2" THEN 2 ELSE 3

\* Every user has a profile and between 0 and MaxLeaderboardWorkouts workouts.
LeaderboardWorkoutsInit ==
    /\ \E points \in [LeaderboardUsers -> LeaderboardPoints],
          n \in [LeaderboardUsers -> 0..MaxLeaderboardWorkouts] :
          db = [EmptyDb EXCEPT
                  !.auth_users = Accounts(LeaderboardUsers),
                  !.profiles = {[NewProfile(UserNumber(u), u)
                                    EXCEPT !.total_points = points[u]] :
                                u \in LeaderboardUsers},
                  !.workouts =
                      {[id |-> 10 * UserNumber(q[1]) + q[2], user_id |-> q[1],
                        name |-> "Leg", duration_minutes |-> 0] :
                       q \in {p \in LeaderboardUsers \X (1..MaxLeaderboardWorkouts) :
                                 p[2] <= n[p[1]]}}]
    /\ actor = PageUser
    /\ result = Response("none", "none", "ok", {})
    /\ PagesInit("leaderboard")

SpecLeaderboardWorkouts == LeaderboardWorkoutsInit /\ [][fetchLeaderboardData]_vars

WorkoutsOwnedBy(u, d) == {w \in d.workouts : w.user_id = u}

\* C28: for every profile the leaderboard lists, totalWorkouts is the number
\* of workouts stored for that profile's user.
C28_TotalWorkoutsIsOwnersCount ==
    \A i \in DOMAIN topUsers :
        topUsers[i].totalWorkouts = Cardinality(WorkoutsOwnedBy(topUsers[i].user_id, db))

(***************************************************************************)
(* BodyTracker page: the measurement form                                  *)
(***************************************************************************)
\* The measurements a user may have stored through the page.
MaxMeasurements == 2

\* What the user types into the inputs (type="number" for the measures).
MeasureTyped ==
    [weight |-> {"", "70", "600"}, height |-> {"", "180"},
     body_fat_percentage |-> {"", "15"}, notes |-> {"", "ok"}]

\* parseFloat on a string of decimal digits.
DigitValue(ch) ==
    CASE ch = "0" -> 0 [] ch = "1" -> 1 [] ch = "2" -> 2 [] ch = "3" -> 3 [] ch = "4" -> 4
      [] ch = "5" -> 5 [] ch = "6" -> 6 [] ch = "7" -> 7 [] ch = "8" -> 8 [] ch = "9" -> 9

RECURSIVE parseFloat(_)
parseFloat(str) ==
    IF Len(str) = 1 THEN DigitValue(str)
    ELSE 10 * parseFloat(SubSeq(str, 1, Len(str) - 1)) + DigitValue(SubSeq(str, Len(str), Len(str)))

\* formData.weight ? parseFloat(formData.weight) : null, and formData.notes || null;
\* null is <<>>, a value v is <<v>>.
NumberOrNull(str) == IF str # "" THEN <<parseFloat(str)>> ELSE <<>>
StringOrNull(str) == IF str # "" THEN <<str>> ELSE <<>>

\* const measurementData = { ... } of handleSubmit.
measurementData(form) ==
    [weight |-> NumberOrNull(form.weight),
     height |-> NumberOrNull(form.height),
     body_fat_percentage |-> NumberOrNull(form.body_fat_percentage),
     notes |-> StringOrNull(form.notes)]

\* z.number().min(lo).max(hi).optional() on the field of m: undefined (no such
\* key) passes, null is no number, a number is held against its limits.
NumberIssues(m, field, lo, hi, tooSmall, tooBig) ==
    IF ~Has(m, field) THEN {}
    ELSE IF m[field] = <<>> THEN {Issue(field, "Expected number, received null")}
    ELSE IssueIf(m[field][1] < lo, field, tooSmall) \cup IssueIf(m[field][1] > hi, field, tooBig)

\* z.string().max(500).optional()
StringIssues(m, field, max, tooLong) ==
    IF ~Has(m, field) THEN {}
    ELSE IF m[field] = <<>> THEN {Issue(field, "Expected string, received null")}
    ELSE IssueIf(Len(m[field][1]) > max, field, tooLong)

\* The issues bodyMeasurementSchema finds in m; the keys it does not declare
\* are stripped.
bodyMeasurementSchemaIssues(m) ==
    NumberIssues(m, "weight", 20, 500,
                 "Weight must be at least 20", "Weight must be less than 500")
    \cup NumberIssues(m, "height", 50, 300,
                      "Height must be at least 50cm", "Height must be less than 300cm")
    \cup NumberIssues(m, "body_fat_percentage", 0, 100,
                      "Body fat must be at least 0%", "Body fat must be less than 100%")
    \cup StringIssues(m, "notes", 500, "Notes must be less than 500 characters")

\* useEffect(() => { fetchMeasurements(); }, []) of the page opened.
MountBodyTracker ==
    /\ loading
    /\ bodyCalls = NoBodyCalls
    /\ bodyCalls' = [bodyCalls EXCEPT !.fetch = Fetch("sent", {})]
    /\ UNCHANGED <<storeVars, workoutVars, otherPages, page, toasts, viewVars, schemaVars,
                   measurements, loading, showForm, formData>>

\* fetchMeasurements from the store's answer to its end.
fetchMeasurements ==
    /\ bodyCalls.fetch.pc = "sent"
    /\ \E error \in BOOLEAN :
          /\ measurements' =
                IF error THEN measurements
                ELSE Read(PageUser, "body_measurements",
                          [col |-> "user_id", val |-> PageUser], db).rows
          /\ toasts' = IF error THEN "Error" ELSE toasts
    /\ loading' = FALSE
    /\ bodyCalls' = [bodyCalls EXCEPT !.fetch = Fetch("none", {})]
    /\ UNCHANGED <<storeVars, workoutVars, otherPages, page, viewVars, schemaVars,
                   showForm, formData>>

\* onClick={() => setShowForm(!showForm)}; while loading the page renders a
\* spinner only.
setShowForm ==
    /\ ~loading
    /\ showForm' = ~showForm
    /\ UNCHANGED <<storeVars, workoutVars, otherPages, page, toasts, viewVars, schemaVars,
                   measurements, loading, formData, bodyCalls>>

\* onChange of an input of the form: setFormData({ ...formData, [field]: value })
setFormData(field, value) ==
    /\ ~loading
    /\ showForm
    /\ formData[field] # value
    /\ formData' = [formData EXCEPT ![field] = value]
    /\ UNCHANGED <<storeVars, workoutVars, otherPages, page, toasts, viewVars, schemaVars,
                   measurements, loading, showForm, bodyCalls>>

\* handleSubmit up to its await: bodyMeasurementSchema.parse throws into the
\* catch block, else the insert is sent.
handleSubmit ==
    /\ ~loading
    /\ showForm
    /\ bodyCalls.submit = <<>>
    /\ Cardinality(db.body_measurements) < MaxMeasurements
    /\ IF bodyMeasurementSchemaIssues(measurementData(formData)) # {}
          THEN /\ toasts' = "Validation Error"
               /\ UNCHANGED bodyCalls
          ELSE /\ bodyCalls' = [bodyCalls EXCEPT !.submit =
                     <<Spread(measurementData(formData), [user_id |-> PageUser])>>]
               /\ UNCHANGED toasts
    /\ UNCHANGED <<storeVars, workoutVars, otherPages, page, viewVars, schemaVars,
                   measurements, loading, showForm, formData>>

\* handleSubmit from the store's answer to its end.
handleSubmitAnswered ==
    /\ bodyCalls.submit # <<>>
    /\ \E transportError \in BOOLEAN :
          LET row == bodyCalls.submit[1]
              error == transportError
                          \/ ~InsertAllowed("body_measurements", PageUser, row, db)
          IN  IF error
                 THEN /\ toasts' = "Validation Error"
                      /\ bodyCalls' = [bodyCalls EXCEPT !.submit = <<>>]
                      /\ UNCHANGED <<db, formData, showForm>>
                 ELSE /\ db' = InsertRow("body_measurements",
                                         WithId(row, FreshId(db.body_measurements)), db)
                      /\ toasts' = "Success"
                      /\ formData' = EmptyForm
                      /\ showForm' = FALSE
                      /\ bodyCalls' = [fetch |-> Fetch("sent", {}), submit |-> <<>>]
    /\ UNCHANGED <<actor, result, workoutVars, otherPages, page, viewVars, schemaVars,
                   measurements, loading>>

BodyTrackerInit ==
    /\ db = [EmptyDb EXCEPT !.profiles = {NewProfile(1, PageUser)}]
    /\ actor = PageUser
    /\ result = Response("none", "none", "ok", {})
    /\ PagesInit("body-tracker")

BodyTrackerStep ==
    \/ MountBodyTracker
    \/ fetchMeasurements
    \/ setShowForm
    \/ \E field \in DOMAIN MeasureTyped : \E value \in MeasureTyped[field] :
          setFormData(field, value)
    \/ handleSubmit
    \/ handleSubmitAnswered

BodyTrackerNext ==
    \/ dismissToast
    \/ toasts = NoToast /\ BodyTrackerStep

SpecBodyTracker == BodyTrackerInit /\ [][BodyTrackerNext]_vars

\* The declared ranges, applied to the fields of the form that are filled in.
FilledFieldsWithinRange(form) ==
    /\ form.weight # "" => parseFloat(form.weight) \in 20..500
    /\ form.height # "" => parseFloat(form.height) \in 50..300
    /\ form.body_fat_percentage # "" => parseFloat(form.body_fat_percentage) \in 0..100
    /\ Len(form.notes) <= 500

\* C29: a click on the submit button sends the insert of the measurement
\* exactly when every field that is filled in is within its range: it is
\* refused ("Validation Error" before anything is sent) only when a filled
\* field is out of range, never for a field left blank.
C29_InsertedWhenFilledFieldsInRange ==
    [][/\ (bodyCalls.submit = <<>> /\ bodyCalls'.submit # <<>>)
            => FilledFieldsWithinRange(formData)
       /\ (bodyCalls.submit = <<>> /\ toasts' = "Validation Error")
            => ~FilledFieldsWithinRange(formData)]_vars

(***************************************************************************)
(* C30: the policies of coach_groups and group_members read each other     *)
(***************************************************************************)
\* C30: every select on coach_groups or group_members is answered with rows
\* (each row allowed or denied), for any user: expanding the policies of the
\* table never comes back to a table being expanded.
C30_GroupPoliciesEndDefinite ==
    (result.kind = "select" /\ result.table \in GroupTables) =>
        /\ ~PolicyRecursion(result.table, "select")
        /\ result.status = "ok"
====
